---- MODULE Spec2Model ----
(***************************************************************************)
(* native-variants: the variant resolution engine (create-nva), its        *)
(* memoization layers and the styled() / createNVA().styled() facades.     *)
(***************************************************************************)
EXTENDS Integers, Sequences, FiniteSets, TLC

VARIABLES
  decls,               \* the styled declarations made so far (closure state of each computeStyles)
  styleCache,          \* module-level WeakMap<configRef, Map<key, result>> of the standalone styled
  primitiveCache,      \* module-level Map<key, result>
  instanceCache,       \* createNVA instance Map<configRef, Map<key, result>>
  themeOverrideCache,  \* per declaration WeakMap<override, Map<key, result>>
  heap,                \* result objects by identity
  nextId,              \* identity of the next result object
  clears,              \* number of clearStyleCache calls so far
  log,                 \* the computeStyles calls made so far, with what each returned
  nva,                 \* a createNVA call: its theme option and, once made, theme and colorScheme
  expansion,           \* an expandUtils call: its style, its utils and, once made, its result
  provider             \* the ThemeProvider: its props, its state and the storage behind it

\* the variables of the styling engine
engine == <<decls, styleCache, primitiveCache, instanceCache, themeOverrideCache,
            heap, nextId, clears, log>>

vars == <<decls, styleCache, primitiveCache, instanceCache, themeOverrideCache,
          heap, nextId, clears, log, nva, expansion, provider>>

\* Bound on the number of operations (styled, computeStyles, clearStyleCache) in a run.
MaxSteps == 4

-----------------------------------------------------------------------------
(* JavaScript values: strings, booleans, numbers, undefined, object references *)

S(s) == [t |-> "string", b |-> FALSE, n |-> 0, s |-> s]
B(b) == [t |-> "boolean", b |-> b, n |-> 0, s |-> ""]
N(n) == [t |-> "number", b |-> FALSE, n |-> n, s |-> ""]
\* a reference to the object with identity id
O(id) == [t |-> "object", b |-> FALSE, n |-> 0, s |-> id]
U == [t |-> "undefined", b |-> FALSE, n |-> 0, s |-> ""]

Digit == <<"0", "1", "2", "3", "4", "5", "6", "7", "8", "9">>

RECURSIVE NumStr(_)
NumStr(n) == IF n < 10 THEN Digit[n + 1] ELSE NumStr(n \div 10) \o Digit[(n % 10) + 1]

\* String(v) of the cache key template literal and of normalizeVariantValue
String(v) ==
  CASE v.t = "string" -> v.s
    [] v.t = "boolean" -> (IF v.b THEN "true" ELSE "false")
    [] v.t = "number" -> NumStr(v.n)
    [] v.t = "undefined" -> "undefined"
    [] v.t = "object" -> "[object Object]"

(* Object literals are sequences of entries, in property order *)
E(k, v) == [k |-> k, v |-> v]

Keys(o) == [i \in 1..Len(o) |-> o[i].k]
KeySet(o) == {o[i].k : i \in 1..Len(o)}
Has(o, k) == \E i \in 1..Len(o) : o[i].k = k
At(o, k) == o[CHOOSE i \in 1..Len(o) : o[i].k = k].v
\* o[k] for an object of primitive values: undefined when the property is absent
Get(o, k) == IF Has(o, k) THEN At(o, k) ELSE U

\* { ...a, ...b } on maps: b wins on every shared key
Spread(a, b) == b @@ a

Empty == [k \in {} |-> U]

\* m[k] for a map of primitive values
Prop(m, k) == IF k \in DOMAIN m THEN m[k] ELSE U

\* the map an object literal of plain values denotes
RECURSIVE ObjMap(_)
ObjMap(o) == IF Len(o) = 0 THEN Empty
             ELSE Spread(ObjMap(SubSeq(o, 1, Len(o) - 1)), o[Len(o)].k :> o[Len(o)].v)

\* the characters of the strings that occur where an object is spread
Chars ==
  "#eee" :> <<"#", "e", "e", "e">> @@ "#111" :> <<"#", "1", "1", "1">> @@
  "valueOf" :> <<"v", "a", "l", "u", "e", "O", "f">>

\* { ...v }: the own enumerable properties of v; those of a string are its indexed characters
SpreadOf(v) ==
  CASE v.t = "object" -> ObjMap(v.m)
    [] v.t = "string" ->
         [k \in {NumStr(i - 1) : i \in 1..Len(Chars[v.s])} |->
            S(Chars[v.s][CHOOSE i \in 1..Len(Chars[v.s]) : NumStr(i - 1) = k])]
    [] OTHER -> Empty

\* the condition `v ? ... : ...`
Truthy(v) ==
  CASE v.t = "object" -> TRUE
    [] v.t = "string" -> v.s # ""
    [] v.t = "boolean" -> v.b
    [] v.t = "number" -> v.n # 0
    [] OTHER -> FALSE

\* the functions every object literal inherits from Object.prototype
ObjectPrototype ==
  {"constructor", "toString", "toLocaleString", "valueOf", "hasOwnProperty",
   "isPrototypeOf", "propertyIsEnumerable"}

-----------------------------------------------------------------------------
(* UTF-16 code units of the property names that occur as selection keys:   *)
(* Array.prototype.sort() without a comparator orders by code units.       *)
CodeUnits ==
  "size" :> <<115, 105, 122, 101>> @@
  "square" :> <<115, 113, 117, 97, 114, 101>> @@
  "theme" :> <<116, 104, 101, 109, 101>> @@
  "tone" :> <<116, 111, 110, 101>>

RECURSIVE SeqLess(_, _)
SeqLess(a, b) ==
  IF Len(a) = 0 THEN Len(b) > 0
  ELSE IF Len(b) = 0 THEN FALSE
  ELSE IF a[1] # b[1] THEN a[1] < b[1]
  ELSE SeqLess(Tail(a), Tail(b))

StrLess(x, y) == SeqLess(CodeUnits[x], CodeUnits[y])

RECURSIVE Insert(_, _)
Insert(sorted, x) ==
  IF Len(sorted) = 0 THEN <<x>>
  ELSE IF StrLess(x, sorted[1]) THEN <<x>> \o sorted
  ELSE <<sorted[1]>> \o Insert(Tail(sorted), x)

RECURSIVE Sort(_)
Sort(keys) == IF Len(keys) = 0 THEN <<>> ELSE Insert(Sort(Tail(keys)), keys[1])

-----------------------------------------------------------------------------
(* createCacheKey: args is <<>> when props is undefined, <<props>> otherwise *)

RECURSIVE KeyConcat(_, _, _)
KeyConcat(keys, props, i) ==
  IF i > Len(keys) THEN ""
  ELSE LET k == keys[i]
           v == Get(props, k)
       IN (IF v # U THEN k \o ":" \o String(v) \o ";" ELSE "") \o KeyConcat(keys, props, i + 1)

\* faulty variant: the keys are not sorted
createCacheKeyUnsorted(args) ==
  IF Len(args) = 0 THEN "{}"
  ELSE LET props == args[1]
           keys == Keys(props)
       IN IF Len(keys) = 0 THEN "{}"
          ELSE LET key == KeyConcat(keys, props, 1)
               IN IF key = "" THEN "{}" ELSE key

createCacheKey(args) ==
  IF Len(args) = 0 THEN "{}"
  ELSE LET props == args[1]
           keys == Keys(props)
       IN IF Len(keys) = 0 THEN "{}"
          ELSE LET key == KeyConcat(Sort(keys), props, 1)
               IN IF key = "" THEN "{}" ELSE key

normalizeVariantValue(value) ==
  IF value.t = "boolean" THEN (IF value.b THEN "true" ELSE "false") ELSE String(value)

-----------------------------------------------------------------------------
(* Variant resolver.  base: slot -> Styles; variants: entries axis ->      *)
(* (label -> (slot -> Styles)); compoundVariants: sequence of              *)
(* [conditions, css]; props: resolved selections, axis -> value.           *)

\* faulty variant: the axes are walked from the last key of the variant table to the first
RECURSIVE applyVariantReversed(_, _, _, _, _)
applyVariantReversed(slot, variants, props, i, style) ==
  IF i > Len(variants) THEN style
  ELSE LET variantKey == variants[Len(variants) + 1 - i].k
           variantConfig == variants[Len(variants) + 1 - i].v
           value == Prop(props, variantKey)
           normalizedValue == normalizeVariantValue(value)
           found == /\ variantKey \in DOMAIN props
                    /\ value # U
                    /\ normalizedValue \in DOMAIN variantConfig
                    /\ slot \in DOMAIN variantConfig[normalizedValue]
       IN applyVariantReversed(slot, variants, props, i + 1,
            IF found THEN Spread(style, variantConfig[normalizedValue][slot]) ELSE style)

RECURSIVE applyVariantFrom(_, _, _, _, _)
applyVariantFrom(slot, variants, props, i, style) ==
  IF i > Len(variants) THEN style
  ELSE LET variantKey == variants[i].k
           variantConfig == variants[i].v
           value == Prop(props, variantKey)
           normalizedValue == normalizeVariantValue(value)
           found == /\ variantKey \in DOMAIN props
                    /\ value # U
                    /\ normalizedValue \in DOMAIN variantConfig
                    /\ slot \in DOMAIN variantConfig[normalizedValue]
           \* variantConfig[normalizedValue] is an inherited function when the label is
           \* no own property, and its property name is the function's name
           inherited == /\ variantKey \in DOMAIN props
                        /\ value # U
                        /\ normalizedValue \notin DOMAIN variantConfig
                        /\ normalizedValue \in ObjectPrototype
                        /\ slot = "name"
       IN applyVariantFrom(slot, variants, props, i + 1,
            IF found THEN Spread(style, variantConfig[normalizedValue][slot])
            ELSE IF inherited /\ Truthy(S(normalizedValue))
                 THEN Spread(style, SpreadOf(S(normalizedValue)))
                 ELSE style)

applyVariant(slot, variants, props) == applyVariantFrom(slot, variants, props, 1, Empty)

\* faulty variant: condition and selection are compared without normalization
isMatchStrict(conditions, props) ==
  \A j \in 1..Len(conditions) :
    \/ conditions[j].k = "css"
    \/ conditions[j].v = Prop(props, conditions[j].k)

isMatch(conditions, props) ==
  \A j \in 1..Len(conditions) :
    \/ conditions[j].k = "css"
    \/ normalizeVariantValue(conditions[j].v) = normalizeVariantValue(Prop(props, conditions[j].k))

\* faulty variant: of the matching compounds that set a property the first declared wins
RECURSIVE applyCompoundFirstWins(_, _, _, _, _)
applyCompoundFirstWins(slot, compoundVariants, props, i, style) ==
  IF i > Len(compoundVariants) THEN style
  ELSE LET cv == compoundVariants[i]
           applies == isMatch(cv.conditions, props) /\ slot \in DOMAIN cv.css
       IN applyCompoundFirstWins(slot, compoundVariants, props, i + 1,
            IF applies THEN Spread(cv.css[slot], style) ELSE style)

RECURSIVE applyCompoundFrom(_, _, _, _, _)
applyCompoundFrom(slot, compoundVariants, props, i, style) ==
  IF i > Len(compoundVariants) THEN style
  ELSE LET cv == compoundVariants[i]
           applies == isMatch(cv.conditions, props) /\ slot \in DOMAIN cv.css
       IN applyCompoundFrom(slot, compoundVariants, props, i + 1,
            IF applies THEN Spread(style, cv.css[slot]) ELSE style)

applyCompound(slot, compoundVariants, props) ==
  applyCompoundFrom(slot, compoundVariants, props, 1, Empty)

\* faulty variant: the variant style is spread after the compound style
computeSlotStylesVariantLast(slot, base, variants, compoundVariants, props) ==
  LET baseStyle == IF slot \in DOMAIN base THEN base[slot] ELSE Empty
      variantStyle == applyVariant(slot, variants, props)
      compoundStyle == applyCompound(slot, compoundVariants, props)
  IN Spread(Spread(baseStyle, compoundStyle), variantStyle)

computeSlotStyles(slot, base, variants, compoundVariants, props) ==
  LET baseStyle == IF slot \in DOMAIN base THEN base[slot] ELSE Empty
      variantStyle == applyVariant(slot, variants, props)
      compoundStyle == applyCompound(slot, compoundVariants, props)
  IN Spread(Spread(baseStyle, variantStyle), compoundStyle)

-----------------------------------------------------------------------------
(* Utility expander.  utils is the set of macro names of the macro table;  *)
(* utilFn(key, value) is the style map the macro returns.                  *)

inputUtils == {"px", "py", "size"}

\* the user's macros; p is a macro whose output names the macros px and py
utilFn(key, value) ==
  CASE key = "px" -> ("paddingLeft" :> value @@ "paddingRight" :> value)
    [] key = "p" -> ("px" :> value @@ "py" :> value)
    [] key = "py" -> ("paddingTop" :> value @@ "paddingBottom" :> value)
    [] key = "size" -> ("width" :> value @@ "height" :> value)

\* faulty variant: a key that is already set keeps its value
RECURSIVE expandUtilsFirstWins(_, _, _, _)
expandUtilsFirstWins(style, utils, i, result) ==
  IF i > Len(style) THEN result
  ELSE LET key == style[i].k
           value == style[i].v
       IN expandUtilsFirstWins(style, utils, i + 1,
            IF key \in utils THEN Spread(utilFn(key, value), result)
            ELSE Spread(key :> value, result))

RECURSIVE expandUtilsFrom(_, _, _, _)
expandUtilsFrom(style, utils, i, result) ==
  IF i > Len(style) THEN result
  ELSE LET key == style[i].k
           value == style[i].v
       IN expandUtilsFrom(style, utils, i + 1,
            IF key \in utils THEN Spread(result, utilFn(key, value))
            ELSE Spread(result, key :> value))

\* faulty variant: the macros named by the keys of the result are expanded in turn
expandUtilsDeep(style, utils) ==
  LET once == expandUtilsFrom(style, utils, 1, Empty)
      again == DOMAIN once \cap utils
  IN Spread([k \in DOMAIN once \ utils |-> once[k]],
            [k \in UNION {DOMAIN utilFn(m, once[m]) : m \in again} |->
               LET m == CHOOSE m \in again : k \in DOMAIN utilFn(m, once[m])
               IN utilFn(m, once[m])[k]])

expandUtils(style, utils) == expandUtilsFrom(style, utils, 1, Empty)

\* Bound on the number of properties of a style object handed to expandUtils
MaxStyleLen == 2

\* style objects: macro names and plain properties, in every property order
StyleInputs ==
  LET entries == {E(k, v) : k \in {"p", "px", "py", "size", "paddingLeft", "width"},
                            v \in {N(4), N(8)}}
  IN UNION {{style \in [1..n -> entries] :
               \A i \in 1..n : \A j \in 1..n : style[i].k = style[j].k => i = j} :
            n \in 0..MaxStyleLen}

\* utils options: the sets of macro names the instance is created with
UtilsInputs == {{}, {"px", "py", "size"}, {"p", "px", "py"}, {"p"}, {"size"}}

\* an optional field of a configuration: <<>> when absent, <<value>> when present
Field(config, f) == IF f \in DOMAIN config THEN <<config[f]>> ELSE <<>>

expandSlots(slots, utils) == [slot \in KeySet(slots) |-> expandUtils(At(slots, slot), utils)]

expandBaseUtils(base, utils) ==
  IF Len(base) = 0 THEN Empty ELSE expandSlots(base[1], utils)

expandVariantsUtils(variants, utils) ==
  IF Len(variants) = 0 THEN <<>>
  ELSE [i \in 1..Len(variants[1]) |->
          LET variantValues == variants[1][i].v
          IN E(variants[1][i].k,
               [valueKey \in KeySet(variantValues) |->
                  expandSlots(At(variantValues, valueKey), utils)])]

\* faulty variant: the css of a compound variant is copied without expansion
expandCompoundUtilsNone(compoundVariants, utils) ==
  IF Len(compoundVariants) = 0 THEN <<>>
  ELSE [i \in 1..Len(compoundVariants[1]) |->
          LET cv == compoundVariants[1][i]
          IN [conditions |-> cv.conditions,
              css |-> IF "css" \in DOMAIN cv
                      THEN [slot \in KeySet(cv.css) |-> ObjMap(At(cv.css, slot))]
                      ELSE Empty]]

expandCompoundUtils(compoundVariants, utils) ==
  IF Len(compoundVariants) = 0 THEN <<>>
  ELSE [i \in 1..Len(compoundVariants[1]) |->
          LET cv == compoundVariants[1][i]
          IN [conditions |-> cv.conditions,
              css |-> IF "css" \in DOMAIN cv THEN expandSlots(cv.css, utils) ELSE Empty]]

-----------------------------------------------------------------------------
(* Token merger of createNVA *)

KnownThemeKeys ==
  {"colors", "spacing", "fontSizes", "radii", "shadows", "zIndex", "opacity",
   "lineHeights", "fontWeights", "letterSpacing", "borderWidths", "durations"}

\* excerpt of the Tailwind default token tables
defaultTokens ==
  [palette |-> ("blue500" :> S("#3b82f6") @@ "white" :> S("#ffffff")),
   spacing |-> ("4" :> N(16) @@ "md" :> N(12)),
   fontSizes |-> ("lg" :> N(18) @@ "base" :> N(16)),
   radii |-> ("lg" :> N(8)),
   shadows |-> ("sm" :> N(1)),
   zIndex |-> ("10" :> N(10)),
   opacity |-> ("50" :> N(50)),
   lineHeights |-> ("tight" :> N(1)),
   fontWeights |-> ("bold" :> S("700")),
   letterSpacing |-> ("wide" :> N(1)),
   borderWidths |-> ("2" :> N(2)),
   durations |-> ("150" :> N(150))]

\* the theme option of the createNVA call of the example
inputTheme ==
  [colors |-> <<E("light", [t |-> "object",
                           m |-> <<E("primary", S("#3b82f6")), E("background", S("#ffffff"))>>]),
                E("dark", [t |-> "object",
                          m |-> <<E("primary", S("#60a5fa")), E("background", S("#000000"))>>])>>,
   spacing |-> ("md" :> N(16)),
   fontSizes |-> ("heading" :> N(24))]

isStructuredColors(colors) == Has(colors, "light")

extractStandaloneColors(colors) ==
  ObjMap(SelectSeq(colors, LAMBDA e : e.k # "light" /\ e.k # "dark" /\ e.v.t = "string"))

\* faulty variant: the structured light map is applied after the standalone entries
userColorsLightLast(theme) ==
  IF "colors" \in DOMAIN theme
  THEN IF isStructuredColors(theme.colors)
       THEN Spread(extractStandaloneColors(theme.colors), SpreadOf(At(theme.colors, "light")))
       ELSE ObjMap(theme.colors)
  ELSE Empty

userColors(theme) ==
  IF "colors" \in DOMAIN theme
  THEN IF isStructuredColors(theme.colors)
       THEN Spread(SpreadOf(At(theme.colors, "light")), extractStandaloneColors(theme.colors))
       ELSE ObjMap(theme.colors)
  ELSE Empty

colorSchemeConfig(theme) ==
  IF "colors" \in DOMAIN theme
  THEN IF isStructuredColors(theme.colors)
       THEN [light |-> Spread(SpreadOf(At(theme.colors, "light")),
                              extractStandaloneColors(theme.colors)),
             dark |-> IF Truthy(Get(theme.colors, "dark"))
                      THEN <<Spread(SpreadOf(At(theme.colors, "dark")),
                                    extractStandaloneColors(theme.colors))>>
                      ELSE <<>>]
       ELSE [light |-> ObjMap(theme.colors), dark |-> <<ObjMap(theme.colors)>>]
  ELSE [light |-> Empty, dark |-> <<>>]

mergedColors(theme) == Spread(defaultTokens.palette, userColors(theme))

\* faulty variant: the default table is applied after the user's table
mergeCategoryDefaultsLast(key, theme) ==
  Spread(IF key \in DOMAIN theme THEN theme[key] ELSE Empty, defaultTokens[key])

\* { ...defaultTokens.key, ...(inputTheme?.key ?? {}) }
mergeCategory(key, theme) ==
  Spread(defaultTokens[key], IF key \in DOMAIN theme THEN theme[key] ELSE Empty)

\* faulty variant: no custom key is copied
customTokensDropped(theme) == Empty

\* Object.keys(inputTheme ?? {}).reduce(...): the entries whose key is no known category
customTokens(theme) == [key \in DOMAIN theme \ KnownThemeKeys |-> theme[key]]

createResolvedTheme(theme) ==
  Spread([key \in KnownThemeKeys |->
            IF key = "colors" THEN mergedColors(theme) ELSE mergeCategory(key, theme)],
         customTokens(theme))

resolvedTheme == createResolvedTheme(inputTheme)

\* createNVA({ theme }): the resolved theme and the color scheme of the instance
createNVA(theme) ==
  [input |-> theme, created |-> TRUE,
   theme |-> createResolvedTheme(theme), colorScheme |-> colorSchemeConfig(theme)]

\* colors options: flat maps (one of them with colors named light and dark) and structured objects
ColorOptions ==
  LET lightColors == <<E("primary", S("#111")), E("white", S("#eee"))>>
      darkColors == <<E("primary", S("#eee")), E("onDark", S("#111"))>>
      light == E("light", [t |-> "object", m |-> lightColors])
      dark == E("dark", [t |-> "object", m |-> darkColors])
  IN {<<>>,
      <<E("primary", S("#111"))>>,
      <<E("primary", S("#111")), E("white", S("#eee"))>>,
      <<E("primary", S("#111")), E("light", S("#eee"))>>,
      <<E("light", S("#eee")), E("dark", S("#111"))>>,
      <<light>>,
      <<light, dark>>,
      <<E("light", [t |-> "object", m |-> <<>>]), E("dark", [t |-> "object", m |-> <<>>])>>,
      <<light, dark, E("brand", S("#b00"))>>,
      <<E("primary", S("#b00")), light, dark>>,
      <<light, E("primary", S("#b00"))>>,
      <<light, E("dark", U), E("brand", S("#b00"))>>,
      <<light, dark, E("brand", S("#b00")), E("scale", [t |-> "object", m |-> lightColors])>>,
      <<light, dark, E("blue500", S("#00f")), E("level", N(2))>>}

\* the non-color categories of a theme option: none, one, or all eleven
TableOptions ==
  {Empty,
   "spacing" :> ("md" :> N(20) @@ "xl" :> N(32)),
   [key \in KnownThemeKeys \ {"colors"} |->
      [k \in {CHOOSE d \in DOMAIN defaultTokens[key] : TRUE, "user"} |-> N(99)]]}

\* the custom token groups of a theme option
CustomOptions ==
  {Empty,
   "breakpoints" :> ("sm" :> N(640)),
   "breakpoints" :> ("sm" :> N(640)) @@ "palette" :> ("blue500" :> S("#000"))}

\* the theme options of the createNVA calls; an absent theme reads as the empty one
\* (inputTheme?.colors, inputTheme?.spacing ?? {}, Object.keys(inputTheme ?? {}))
ThemeInputs ==
  {c @@ t @@ x : c \in {Empty} \cup {"colors" :> o : o \in ColorOptions},
                 t \in TableOptions, x \in CustomOptions}

\* no expandUtils call under study
NoExpansion == [applied |-> FALSE]

-----------------------------------------------------------------------------
(* ThemeProvider: mode state, system preference, hydration from AsyncStorage *)

\* no provider in the tree; used is the outcome of the last useTheme call, if any
Unmounted == [mounted |-> FALSE, used |-> <<>>]

ThemeModes == {"light", "dark", "system"}

\* the storageKey prop: its default and another key
StorageKeys == {"native-variants-theme", "app-theme"}

\* Bound on the number of AsyncStorage calls of one kind (getItem, setItem) in flight
MaxPending == 1

resolveColorScheme(mode, systemScheme) ==
  IF mode = "system" THEN (IF systemScheme = "dark" THEN "dark" ELSE "light") ELSE mode

\* the colors prop: the colorScheme of a createNVA instance made with a light map alone,
\* or with a light and a dark map
ProviderColors ==
  {colorSchemeConfig("colors" :> o) :
     o \in {c \in ColorOptions :
        /\ Len(c) \in 1..2 /\ c[1].k = "light" /\ c[1].v.t = "object" /\ Len(c[1].v.m) > 0
        /\ Len(c) = 2 => c[2].k = "dark" /\ c[2].v.t = "object"}}

\* colors.dark and colors.default as the provider reads them off the colors prop
currentColors(colors, colorScheme) ==
  IF colorScheme = "dark" /\ Len(colors.dark) > 0 THEN colors.dark[1]
  ELSE IF "default" \in DOMAIN colors THEN colors["default"] ELSE U

\* the context value of a render (useMemo)
ContextValue ==
  [theme |-> provider.mode,
   isDark |-> resolveColorScheme(provider.mode, provider.systemScheme) = "dark",
   colors |-> currentColors(provider.colors,
                            resolveColorScheme(provider.mode, provider.systemScheme))]

\* if (!isHydrated) return null: the children are rendered inside the context otherwise
ChildrenRendered == provider.mounted /\ provider.isHydrated

\* the provider after its first render and its mount effects: AsyncStorage is the
\* optional module (hasStorage), stored the items by key ("" for null), reads and writes
\* the getItem and setItem calls in flight, chosen the mode last set by setTheme or toggle
Mount(colors, defaultMode, systemScheme, hasStorage, stored) ==
  [mounted |-> TRUE, colors |-> colors, hasStorage |-> hasStorage,
   storageKey |-> "native-variants-theme",
   mode |-> defaultMode, systemScheme |-> systemScheme, isHydrated |-> ~hasStorage,
   stored |-> stored,
   reads |-> IF hasStorage THEN <<"native-variants-theme">> ELSE <<>>,
   writes |-> <<>>, chosen |-> <<>>, used |-> <<>>]

\* a sequence without its i-th element
Without(seq, i) == SubSeq(seq, 1, i - 1) \o SubSeq(seq, i + 1, Len(seq))

\* faulty variant: every stored string is adopted
ReadResolveAny(i) ==
  /\ provider.mounted
  /\ i \in 1..Len(provider.reads)
  /\ provider' = [provider EXCEPT
                    !.mode = IF provider.stored[provider.reads[i]] # ""
                             THEN provider.stored[provider.reads[i]] ELSE @,
                    !.isHydrated = TRUE,
                    !.reads = Without(@, i)]
  /\ UNCHANGED <<engine, nva, expansion>>

\* AsyncStorage.getItem(storageKey).then(...)
ReadResolve(i) ==
  /\ provider.mounted
  /\ i \in 1..Len(provider.reads)
  /\ provider' = [provider EXCEPT
                    !.mode = IF provider.stored[provider.reads[i]] \in ThemeModes
                             THEN provider.stored[provider.reads[i]] ELSE @,
                    !.isHydrated = TRUE,
                    !.reads = Without(@, i)]
  /\ UNCHANGED <<engine, nva, expansion>>

\* faulty variant: a rejected read leaves the provider as it is
ReadRejectSilent(i) ==
  /\ provider.mounted
  /\ i \in 1..Len(provider.reads)
  /\ provider' = [provider EXCEPT !.reads = Without(@, i)]
  /\ UNCHANGED <<engine, nva, expansion>>

\* AsyncStorage.getItem(storageKey).catch(...)
ReadReject(i) ==
  /\ provider.mounted
  /\ i \in 1..Len(provider.reads)
  /\ provider' = [provider EXCEPT !.isHydrated = TRUE, !.reads = Without(@, i)]
  /\ UNCHANGED <<engine, nva, expansion>>

\* the storageKey prop changes: the load effect runs again ([storageKey] dependency)
StorageKeyChange(storageKey) ==
  /\ provider.mounted
  /\ storageKey # provider.storageKey
  /\ provider.hasStorage => Len(provider.reads) < MaxPending
  /\ provider' = [provider EXCEPT
                    !.storageKey = storageKey,
                    !.reads = IF provider.hasStorage THEN Append(@, storageKey) ELSE @]
  /\ UNCHANGED <<engine, nva, expansion>>

\* the state after setTheme(newMode)
afterSetTheme(newMode) ==
  [provider EXCEPT !.mode = newMode,
                   !.chosen = <<newMode>>,
                   !.writes = IF provider.hasStorage
                              THEN Append(@, [key |-> provider.storageKey, value |-> newMode])
                              ELSE @]

\* setTheme(newMode) of the context value, which children get once hydrated
SetTheme(newMode) ==
  /\ ChildrenRendered
  /\ provider.hasStorage => Len(provider.writes) < MaxPending
  /\ provider' = afterSetTheme(newMode)
  /\ UNCHANGED <<engine, nva, expansion>>

\* faulty variant: the new mode is the opposite of the mode, system counting as dark
ToggleFromMode ==
  /\ ChildrenRendered
  /\ provider.hasStorage => Len(provider.writes) < MaxPending
  /\ provider' = afterSetTheme(IF provider.mode = "light" THEN "dark" ELSE "light")
  /\ UNCHANGED <<engine, nva, expansion>>

\* toggle() of the context value
Toggle ==
  /\ ChildrenRendered
  /\ provider.hasStorage => Len(provider.writes) < MaxPending
  /\ LET currentScheme == resolveColorScheme(provider.mode, provider.systemScheme)
         newMode == IF currentScheme = "light" THEN "dark" ELSE "light"
     IN provider' = afterSetTheme(newMode)
  /\ UNCHANGED <<engine, nva, expansion>>

\* a setItem in flight completes: the item is stored
WriteResolve(i) ==
  /\ provider.mounted
  /\ i \in 1..Len(provider.writes)
  /\ provider' = [provider EXCEPT
                    !.stored[provider.writes[i].key] = provider.writes[i].value,
                    !.writes = Without(@, i)]
  /\ UNCHANGED <<engine, nva, expansion>>

\* a setItem in flight fails: .catch(() => {})
WriteReject(i) ==
  /\ provider.mounted
  /\ i \in 1..Len(provider.writes)
  /\ provider' = [provider EXCEPT !.writes = Without(@, i)]
  /\ UNCHANGED <<engine, nva, expansion>>

\* the Appearance change listener
SystemChange(colorScheme) ==
  /\ provider.mounted
  /\ provider' = [provider EXCEPT !.systemScheme = colorScheme]
  /\ UNCHANGED <<engine, nva, expansion>>

\* faulty variant: without a provider the hook returns a light default value
UseThemeFallback ==
  /\ provider.mounted => provider.isHydrated
  /\ provider' = [provider EXCEPT !.used =
       <<IF provider.mounted THEN [threw |-> FALSE, value |-> ContextValue]
         ELSE [threw |-> FALSE, value |-> [theme |-> "light", isDark |-> FALSE, colors |-> U]]>>]
  /\ UNCHANGED <<engine, nva, expansion>>

\* useTheme() in a component: a child of the provider, or a component with no provider above
UseTheme ==
  /\ provider.mounted => provider.isHydrated
  /\ provider' = [provider EXCEPT !.used =
       <<IF provider.mounted THEN [threw |-> FALSE, value |-> ContextValue]
         ELSE [threw |-> TRUE,
               message |-> "useTheme must be used within a ThemeProvider. "
                           \o "Make sure to wrap your app with <ThemeProvider colors={colorScheme}>."]>>]
  /\ UNCHANGED <<engine, nva, expansion>>

-----------------------------------------------------------------------------
(* The configurations declared in a run, and the selections passed to them *)

\* a static configuration object: every merge tier sets overlapping properties, and base
\* has an entry for icon, a slot that is not declared
buttonConfig ==
  [slots |-> <<"root", "text">>,
   base |-> <<E("root", <<E("padding", N(16)), E("width", N(10)), E("opacity", N(1))>>),
              E("text", <<E("fontSize", N(14))>>),
              E("icon", <<E("opacity", N(0))>>)>>,
   variants |->
     <<E("size", <<E("sm", <<E("root", <<E("padding", N(8))>>)>>),
                   E("lg", <<E("root", <<E("padding", N(24))>>),
                             E("text", <<E("fontSize", N(18))>>)>>)>>),
       E("square", <<E("true", <<E("root", <<E("width", N(48)), E("height", N(48)),
                                             E("padding", N(0))>>)>>),
                     E("false", <<E("root", <<E("width", N(20))>>)>>)>>)>>,
   defaultVariants |-> <<E("square", B(TRUE)), E("size", S("sm"))>>,
   compoundVariants |->
     <<[conditions |-> <<E("size", S("lg")), E("square", B(TRUE))>>,
        css |-> <<E("root", <<E("width", N(64)), E("height", N(64))>>)>>],
       [conditions |-> <<E("square", S("false"))>>,
        css |-> <<E("root", <<E("width", N(0))>>), E("text", <<E("fontSize", N(1))>>)>>],
       [conditions |-> <<>>,
        css |-> <<E("text", <<E("letterSpacing", N(1))>>)>>],
       [conditions |-> <<E("size", S("lg"))>>,
        css |-> <<E("root", <<E("height", N(32))>>),
                  E("text", <<E("letterSpacing", N(2))>>)>>]>>]

\* a configuration factory (defineConfig, theme) => config, reading theme tokens; with a
\* theme that has the color compact it names one slot more, badge
buttonFactory(t) ==
  [slots |-> IF Prop(t.colors, "compact") # U THEN <<"root", "text", "badge">>
             ELSE <<"root", "text">>,
   base |-> <<E("root", <<E("backgroundColor", Prop(t.colors, "primary")),
                          E("borderColor", Prop(t.colors, "blue500")),
                          E("borderRadius", Prop(t.radii, "lg")),
                          E("px", N(16))>>),
              E("text", <<E("color", Prop(t.colors, "background"))>>),
              E("badge", <<E("opacity", N(1))>>)>>,
   variants |->
     <<E("size", <<E("sm", <<E("root", <<E("px", N(12))>>)>>),
                   E("lg", <<E("root", <<E("px", N(24))>>)>>)>>),
       E("square", <<E("true", <<E("root", <<E("size", N(48)), E("px", N(0))>>)>>)>>)>>,
   defaultVariants |->
     <<E("size", IF Prop(t.colors, "compact") # U THEN S("sm") ELSE S("lg"))>>,
   compoundVariants |->
     <<[conditions |-> <<E("size", S("lg")), E("square", B(TRUE))>>,
        css |-> <<E("root", <<E("size", N(64))>>)>>]>>]

\* a configuration with every optional field, one of its slots called name, its axis
\* square without a default, and a compound whose condition names the label "undefined"
cardConfig ==
  [slots |-> <<"root", "name">>,
   base |-> <<E("root", <<E("opacity", N(1))>>), E("name", <<E("fontSize", N(14))>>)>>,
   variants |->
     <<E("size", <<E("sm", <<E("root", <<E("padding", N(8))>>)>>),
                   E("lg", <<E("root", <<E("padding", N(24))>>),
                             E("name", <<E("fontSize", N(18))>>)>>)>>),
       E("square", <<E("true", <<E("root", <<E("width", N(48))>>)>>)>>)>>,
   defaultVariants |-> <<E("size", S("sm"))>>,
   compoundVariants |->
     <<[conditions |-> <<E("size", S("lg")), E("square", B(TRUE))>>,
        css |-> <<E("root", <<E("width", N(64))>>)>>],
       [conditions |-> <<E("square", S("undefined"))>>,
        css |-> <<E("root", <<E("height", N(1))>>)>>]>>]

\* the configurations made of cardConfig by leaving optional fields out
AbsentFields ==
  "card" :> {} @@ "cardNoBase" :> {"base"} @@ "cardNoVariants" :> {"variants"} @@
  "cardNoDefaults" :> {"defaultVariants"} @@ "cardNoCompounds" :> {"compoundVariants"} @@
  "cardSlotsOnly" :> {"base", "variants", "defaultVariants", "compoundVariants"}

StaticConfigs == {"buttonConfig"}
Factories == {"buttonFactory"}

\* configOrFactory(defineConfig, theme) for a factory, configOrFactory itself otherwise
Evaluate(configOrFactory, theme) ==
  IF configOrFactory = "buttonFactory" THEN buttonFactory(theme)
  ELSE IF configOrFactory \in DOMAIN AbsentFields
       THEN [f \in DOMAIN cardConfig \ AbsentFields[configOrFactory] |-> cardConfig[f]]
       ELSE buttonConfig

\* the color-map objects passed as the theme field: two objects of equal contents
Overrides == {"o1", "o2"}

OverrideColors(o) == ("primary" :> S("#ff0000") @@ "compact" :> S("#cccccc"))

PlainProps ==
  { <<E("size", S("lg"))>>,
    <<E("size", S("lg")), E("square", B(TRUE))>>,
    <<E("square", B(TRUE)), E("size", S("lg"))>>,
    <<E("size", S("lg;square:true"))>>,
    <<E("square", U), E("size", S("lg"))>>,
    <<E("square", B(FALSE))>>,
    <<E("size", S("lg")), E("square", S("true"))>> }

ThemedProps ==
  { <<E("theme", O(o)), E("size", S("lg")), E("square", B(TRUE))>> : o \in Overrides }
    \cup { <<E("size", S("lg;square:true")), E("theme", O("o1"))>> }

\* argument lists of computeStyles: no argument, or one props object
PlainArgs == {<<>>} \cup {<<props>> : props \in PlainProps}
ThemedArgs == {<<props>> : props \in ThemedProps}

\* the argument lists passed to a declaration of the instance: a static configuration gets
\* every plain selection and one with a theme field, a factory every selection with a
\* theme field and the plain ones of the same selections
StaticNvaArgs ==
  PlainArgs \cup {<< <<E("theme", O("o1")), E("size", S("lg")), E("square", B(TRUE))>> >>}

FactoryArgs ==
  ThemedArgs \cup {<<>>, << <<E("size", S("lg")), E("square", B(TRUE))>> >>,
                   << <<E("size", S("lg;square:true"))>> >>}

NvaArgs(isFactory) == IF isFactory THEN FactoryArgs ELSE StaticNvaArgs

\* selections on cardConfig: declared ones, an axis it does not declare (tone), labels
\* the size axis does not declare (xl, and valueOf, which every object inherits)
CardArgs ==
  {<<>>,
   << <<E("size", S("lg")), E("square", B(TRUE))>> >>,
   << <<E("size", S("xl"))>> >>,
   << <<E("size", S("xl")), E("square", B(TRUE))>> >>,
   << <<E("tone", S("loud"))>> >>,
   << <<E("tone", S("loud")), E("size", S("lg")), E("square", B(TRUE))>> >>,
   << <<E("size", S("valueOf"))>> >>}

-----------------------------------------------------------------------------
(* styled / computeStyles *)

StepsTaken == Len(decls) + Len(log) + clears

SlotSet(slots) == {slots[i] : i \in 1..Len(slots)}

\* the per-slot maps an object literal without macros denotes
plainSlots(slots) == [slot \in KeySet(slots) |-> ObjMap(At(slots, slot))]

\* faulty variant: undefined values are assigned like any other
RECURSIVE assignAll(_, _, _, _)
assignAll(resolvedProps, props, skipped, i) ==
  IF i > Len(props) THEN resolvedProps
  ELSE assignAll(IF props[i].k \notin skipped
                 THEN Spread(resolvedProps, props[i].k :> props[i].v)
                 ELSE resolvedProps,
                 props, skipped, i + 1)

RECURSIVE assignDefined(_, _, _, _)
assignDefined(resolvedProps, props, skipped, i) ==
  IF i > Len(props) THEN resolvedProps
  ELSE assignDefined(IF props[i].v # U /\ props[i].k \notin skipped
                     THEN Spread(resolvedProps, props[i].k :> props[i].v)
                     ELSE resolvedProps,
                     props, skipped, i + 1)

\* { ...defaultVariants } overridden by every supplied value that is not undefined
resolveProps(defaultVariants, args) ==
  IF Len(args) = 0 THEN ObjMap(defaultVariants)
  ELSE assignDefined(ObjMap(defaultVariants), args[1], {}, 1)

\* the same on the theme override path, which also skips a key named theme
resolveOverrideProps(defaultVariants, variantProps) ==
  assignDefined(ObjMap(defaultVariants), variantProps, {"theme"}, 1)

\* faulty variant: the result has an entry for every slot base has one for
computeResultOfBase(slots, base, variants, compoundVariants, resolvedProps) ==
  [slot \in DOMAIN base |->
     computeSlotStyles(slot, base, variants, compoundVariants, resolvedProps)]

computeResult(slots, base, variants, compoundVariants, resolvedProps) ==
  [slot \in SlotSet(slots) |->
     computeSlotStyles(slot, base, variants, compoundVariants, resolvedProps)]

\* cache.get(ref)?.has(key)
cacheHas(cache, ref, key) == ref \in DOMAIN cache /\ key \in DOMAIN cache[ref]

\* faulty variant: the partition is replaced by a map holding the new entry alone
cacheSetAlone(cache, ref, key, result) == Spread(cache, ref :> (key :> result))

\* if (!cache.get(ref)) cache.set(ref, new Map()); cache.get(ref).set(key, result)
cacheSet(cache, ref, key, result) ==
  Spread(cache, ref :> Spread(IF ref \in DOMAIN cache THEN cache[ref] ELSE Empty,
                              key :> result))

\* faulty variant: the cache partition is keyed by the configuration object
configRefByConfig(closure) == closure.config

\* faulty variant: the override cache is keyed by the contents of the override
overrideKeyByContents(themeOverride) == OverrideColors(themeOverride.s)

\* the identity of the cache partition of a declaration
configRef(closure) == closure.ref

\* the WeakMap key of a theme override: the identity of the object passed
overrideKey(themeOverride) == themeOverride.s

\* the closure of the standalone styled(config); id is the identity of its configRef
\* the macro invocations of expanding a configuration: expandUtils calls utils[key](value)
\* once for each key of a style object of base, variants and compoundVariants that names
\* a macro
macroCalls(config) ==
  LET RECURSIVE Sum(_)
      Sum(seq) == IF Len(seq) = 0 THEN 0 ELSE seq[1] + Sum(Tail(seq))
      ofStyle(style) == Cardinality({i \in 1..Len(style) : style[i].k \in inputUtils})
      ofSlots(slots) == Sum([i \in 1..Len(slots) |-> ofStyle(slots[i].v)])
      ofLabels(labels) == Sum([i \in 1..Len(labels) |-> ofSlots(labels[i].v)])
  IN (IF "base" \in DOMAIN config THEN ofSlots(config.base) ELSE 0)
     + (IF "variants" \in DOMAIN config
        THEN Sum([i \in 1..Len(config.variants) |-> ofLabels(config.variants[i].v)])
        ELSE 0)
     + (IF "compoundVariants" \in DOMAIN config
        THEN Sum([i \in 1..Len(config.compoundVariants) |->
                    IF "css" \in DOMAIN config.compoundVariants[i]
                    THEN ofSlots(config.compoundVariants[i].css) ELSE 0])
        ELSE 0)

styledClosure(config, id) ==
  LET cfg == Evaluate(config, Empty)
  IN [kind |-> "styled", config |-> config, isFactory |-> FALSE, ref |-> id,
      slots |-> cfg.slots,
      base |-> IF "base" \in DOMAIN cfg THEN plainSlots(cfg.base) ELSE Empty,
      variants |-> IF "variants" \in DOMAIN cfg
                   THEN [i \in 1..Len(cfg.variants) |->
                           E(cfg.variants[i].k,
                             [valueKey \in KeySet(cfg.variants[i].v) |->
                                plainSlots(At(cfg.variants[i].v, valueKey))])]
                   ELSE <<>>,
      defaultVariants |-> IF "defaultVariants" \in DOMAIN cfg THEN cfg.defaultVariants ELSE <<>>,
      compoundVariants |->
        IF "compoundVariants" \in DOMAIN cfg
        THEN [i \in 1..Len(cfg.compoundVariants) |->
                [conditions |-> cfg.compoundVariants[i].conditions,
                 css |-> IF "css" \in DOMAIN cfg.compoundVariants[i]
                         THEN plainSlots(cfg.compoundVariants[i].css) ELSE Empty]]
        ELSE <<>>]

\* the closure of createNVA(...).styled(configOrFactory)
nvaClosure(configOrFactory, id) ==
  LET configWithUtils == Evaluate(configOrFactory, resolvedTheme)
  IN [kind |-> "nva", config |-> configOrFactory,
      isFactory |-> configOrFactory \in Factories, ref |-> id,
      factoryCalls |-> IF configOrFactory \in Factories THEN 1 ELSE 0,
      macroCalls |-> macroCalls(configWithUtils),
      slots |-> configWithUtils.slots,
      base |-> expandBaseUtils(Field(configWithUtils, "base"), inputUtils),
      variants |-> expandVariantsUtils(Field(configWithUtils, "variants"), inputUtils),
      defaultVariants |-> IF "defaultVariants" \in DOMAIN configWithUtils
                          THEN configWithUtils.defaultVariants ELSE <<>>,
      compoundVariants |->
        expandCompoundUtils(Field(configWithUtils, "compoundVariants"), inputUtils)]

\* { ...resolvedTheme, colors: themeOverride }
overriddenTheme(themeOverride) ==
  [key \in DOMAIN resolvedTheme |->
     IF key = "colors" THEN OverrideColors(themeOverride.s) ELSE resolvedTheme[key]]

\* faulty variant: the theme field stays among the variant props
variantPropsWithTheme(args) == IF Len(args) = 0 THEN <<>> ELSE args[1]

\* const { theme: themeOverride, ...variantProps } = props ?? {}
themeOf(args) == IF Len(args) = 0 THEN U ELSE Get(args[1], "theme")
variantPropsOf(args) ==
  IF Len(args) = 0 THEN <<>> ELSE SelectSeq(args[1], LAMBDA e : e.k # "theme")

\* what a call is recorded as: its arguments, the path it took, what it returned
LogEntry(d, args, path, key, hit, ret, slotCalls, factoryCalls, macros) ==
  [d |-> d, args |-> args, path |-> path, key |-> key, hit |-> hit, ret |-> ret,
   slotCalls |-> slotCalls, factoryCalls |-> factoryCalls, macroCalls |-> macros,
   epoch |-> clears]

\* a result object: its content, and where it was computed
Result(d, theme, resolvedProps, content) ==
  [owner |-> d, theme |-> theme, resolved |-> resolvedProps, content |-> content]

EngineInit ==
  /\ decls = <<>>
  /\ styleCache = Empty
  /\ primitiveCache = Empty
  /\ instanceCache = Empty
  /\ themeOverrideCache = Empty
  /\ heap = Empty
  /\ nextId = 1
  /\ clears = 0
  /\ log = <<>>

Init ==
  /\ EngineInit
  /\ nva = createNVA(inputTheme)
  /\ expansion = NoExpansion
  /\ provider = Unmounted

\* styled(config) of the module
Styled(config) ==
  /\ StepsTaken < MaxSteps
  /\ decls' = Append(decls, styledClosure(config, Len(decls) + 1))
  /\ UNCHANGED <<styleCache, primitiveCache, instanceCache, themeOverrideCache,
                 heap, nextId, clears, log>>
  /\ UNCHANGED <<nva, expansion, provider>>

\* styled(configOrFactory) of the createNVA instance
NvaStyled(configOrFactory) ==
  /\ StepsTaken < MaxSteps
  /\ decls' = Append(decls, nvaClosure(configOrFactory, Len(decls) + 1))
  /\ themeOverrideCache' = Spread(themeOverrideCache, (Len(decls) + 1) :> Empty)
  /\ UNCHANGED <<styleCache, primitiveCache, instanceCache, heap, nextId, clears, log>>
  /\ UNCHANGED <<nva, expansion, provider>>

\* computeStyles(props?) returned by the module's styled
ComputeStyles(d, args) ==
  /\ StepsTaken < MaxSteps
  /\ decls[d].kind = "styled"
  /\ LET c == decls[d]
         cacheKey == createCacheKey(args)
     IN IF cacheHas(styleCache, configRef(c), cacheKey)
        THEN /\ log' = Append(log, LogEntry(d, args, "default", cacheKey, TRUE,
                                            styleCache[configRef(c)][cacheKey], 0, 0, 0))
             /\ UNCHANGED <<styleCache, heap, nextId>>
        ELSE LET resolvedProps == resolveProps(c.defaultVariants, args)
                 result == computeResult(c.slots, c.base, c.variants, c.compoundVariants,
                                         resolvedProps)
             IN /\ heap' = Spread(heap, nextId :> Result(d, "", resolvedProps, result))
                /\ styleCache' = cacheSet(styleCache, configRef(c), cacheKey, nextId)
                /\ nextId' = nextId + 1
                /\ log' = Append(log, LogEntry(d, args, "default", cacheKey, FALSE, nextId,
                                               Len(c.slots), 0, 0))
  /\ UNCHANGED <<decls, primitiveCache, instanceCache, themeOverrideCache, clears>>
  /\ UNCHANGED <<nva, expansion, provider>>

\* computeStyles: the theme override path of a factory declaration
OverridePath(d, args) ==
  LET c == decls[d]
      themeOverride == themeOf(args)
      variantProps == variantPropsOf(args)
      cacheKey == createCacheKey(<<variantProps>>)
      weakMap == themeOverrideCache[c.ref]
  IN IF cacheHas(weakMap, overrideKey(themeOverride), cacheKey)
     THEN /\ log' = Append(log, LogEntry(d, args, "override", cacheKey, TRUE,
                                         weakMap[overrideKey(themeOverride)][cacheKey], 0, 0, 0))
          /\ UNCHANGED <<themeOverrideCache, heap, nextId>>
     ELSE LET recomputedConfig == Evaluate(c.config, overriddenTheme(themeOverride))
              recomputedBase == expandBaseUtils(Field(recomputedConfig, "base"), inputUtils)
              recomputedVariants ==
                expandVariantsUtils(Field(recomputedConfig, "variants"), inputUtils)
              recomputedCompoundVariants ==
                expandCompoundUtils(Field(recomputedConfig, "compoundVariants"), inputUtils)
              resolvedProps ==
                resolveOverrideProps(IF "defaultVariants" \in DOMAIN recomputedConfig
                                     THEN recomputedConfig.defaultVariants ELSE <<>>,
                                     variantProps)
              result == computeResult(c.slots, recomputedBase, recomputedVariants,
                                      recomputedCompoundVariants, resolvedProps)
          IN /\ heap' = Spread(heap, nextId :> Result(d, themeOverride.s, resolvedProps, result))
             /\ themeOverrideCache' =
                  Spread(themeOverrideCache,
                         c.ref :> cacheSet(weakMap, overrideKey(themeOverride), cacheKey, nextId))
             /\ nextId' = nextId + 1
             /\ log' = Append(log, LogEntry(d, args, "override", cacheKey, FALSE, nextId,
                                            Len(c.slots), 1, macroCalls(recomputedConfig)))

\* faulty variant: a miss of the default path evaluates the configuration again
DefaultPathEvaluating(d, args) ==
  LET c == decls[d]
      variantProps == variantPropsOf(args)
      cacheKey == createCacheKey(<<variantProps>>)
  IN IF cacheHas(instanceCache, configRef(c), cacheKey)
     THEN /\ log' = Append(log, LogEntry(d, args, "default", cacheKey, TRUE,
                                         instanceCache[configRef(c)][cacheKey], 0, 0, 0))
          /\ UNCHANGED <<instanceCache, heap, nextId>>
     ELSE LET recomputedConfig == Evaluate(c.config, resolvedTheme)
              resolvedProps == resolveProps(c.defaultVariants, <<variantProps>>)
              result ==
                computeResult(c.slots,
                              expandBaseUtils(Field(recomputedConfig, "base"), inputUtils),
                              expandVariantsUtils(Field(recomputedConfig, "variants"), inputUtils),
                              expandCompoundUtils(Field(recomputedConfig, "compoundVariants"),
                                                  inputUtils),
                              resolvedProps)
          IN /\ heap' = Spread(heap, nextId :> Result(d, "", resolvedProps, result))
             /\ instanceCache' = cacheSet(instanceCache, configRef(c), cacheKey, nextId)
             /\ nextId' = nextId + 1
             /\ log' = Append(log, LogEntry(d, args, "default", cacheKey, FALSE, nextId,
                                            Len(c.slots), IF c.isFactory THEN 1 ELSE 0,
                                            macroCalls(recomputedConfig)))

\* computeStyles: no theme override, or a declaration that is no factory
DefaultPath(d, args) ==
  LET c == decls[d]
      variantProps == variantPropsOf(args)
      cacheKey == createCacheKey(<<variantProps>>)
  IN IF cacheHas(instanceCache, configRef(c), cacheKey)
     THEN /\ log' = Append(log, LogEntry(d, args, "default", cacheKey, TRUE,
                                         instanceCache[configRef(c)][cacheKey], 0, 0, 0))
          /\ UNCHANGED <<instanceCache, heap, nextId>>
     ELSE LET resolvedProps == resolveProps(c.defaultVariants, <<variantProps>>)
              result == computeResult(c.slots, c.base, c.variants, c.compoundVariants,
                                      resolvedProps)
          IN /\ heap' = Spread(heap, nextId :> Result(d, "", resolvedProps, result))
             /\ instanceCache' = cacheSet(instanceCache, configRef(c), cacheKey, nextId)
             /\ nextId' = nextId + 1
             /\ log' = Append(log, LogEntry(d, args, "default", cacheKey, FALSE, nextId,
                                            Len(c.slots), 0, 0))

\* computeStyles(props?) returned by the instance's styled
NvaComputeStyles(d, args) ==
  /\ StepsTaken < MaxSteps
  /\ decls[d].kind = "nva"
  /\ IF themeOf(args) # U /\ decls[d].isFactory
     THEN OverridePath(d, args) /\ UNCHANGED instanceCache
     ELSE DefaultPath(d, args) /\ UNCHANGED themeOverrideCache
  /\ UNCHANGED <<decls, styleCache, primitiveCache, clears>>
  /\ UNCHANGED <<nva, expansion, provider>>

\* faulty variant: the clear also empties the identity-keyed caches
ClearEveryCache ==
  /\ StepsTaken < MaxSteps
  /\ primitiveCache' = Empty
  /\ styleCache' = Empty
  /\ instanceCache' = Empty
  /\ themeOverrideCache' = [ref \in DOMAIN themeOverrideCache |-> Empty]
  /\ clears' = clears + 1
  /\ UNCHANGED <<decls, heap, nextId, log>>
  /\ UNCHANGED <<nva, expansion, provider>>

\* clearStyleCache()
ClearStyleCache ==
  /\ StepsTaken < MaxSteps
  /\ primitiveCache' = Empty
  /\ clears' = clears + 1
  /\ UNCHANGED <<decls, styleCache, instanceCache, themeOverrideCache, heap, nextId, log>>
  /\ UNCHANGED <<nva, expansion, provider>>

Next ==
  \/ \E config \in StaticConfigs : Styled(config)
  \/ \E configOrFactory \in StaticConfigs \cup Factories : NvaStyled(configOrFactory)
  \/ \E d \in 1..Len(decls) : \E args \in PlainArgs : ComputeStyles(d, args)
  \/ \E d \in 1..Len(decls) : \E args \in NvaArgs(decls[d].isFactory) : NvaComputeStyles(d, args)
  \/ ClearStyleCache

Spec == Init /\ [][Next]_vars

\* declarations and calls alone, with no cache ever cleared
ResolveNext ==
  \/ \E config \in StaticConfigs : Styled(config)
  \/ \E configOrFactory \in StaticConfigs \cup Factories : NvaStyled(configOrFactory)
  \/ \E d \in 1..Len(decls) : \E args \in PlainArgs : ComputeStyles(d, args)
  \/ \E d \in 1..Len(decls) : \E args \in NvaArgs(decls[d].isFactory) : NvaComputeStyles(d, args)

ResolveSpec == Init /\ [][ResolveNext]_vars

-----------------------------------------------------------------------------
(* The engine on configurations with absent fields and on undeclared selections *)

SparseNext ==
  \/ \E config \in DOMAIN AbsentFields : Styled(config)
  \/ \E config \in DOMAIN AbsentFields : NvaStyled(config)
  \/ \E d \in 1..Len(decls) : \E args \in CardArgs : ComputeStyles(d, args)
  \/ \E d \in 1..Len(decls) : \E args \in CardArgs : NvaComputeStyles(d, args)

SparseSpec == Init /\ [][SparseNext]_vars

-----------------------------------------------------------------------------
(* The provider on its own, mounted with the colorScheme of a createNVA instance *)

ProviderInit ==
  /\ EngineInit
  /\ nva = createNVA(inputTheme)
  /\ expansion = NoExpansion
  /\ provider \in
       {Unmounted} \cup
       {Mount(colors, defaultMode, systemScheme, hasStorage, stored) :
          colors \in ProviderColors, defaultMode \in ThemeModes,
          systemScheme \in {"light", "dark", "null"}, hasStorage \in BOOLEAN,
          stored \in [StorageKeys -> {"", "dark", "auto"}]}

ProviderNext ==
  \/ \E i \in 1..MaxPending : ReadResolve(i)
  \/ \E i \in 1..MaxPending : ReadReject(i)
  \/ \E storageKey \in StorageKeys : StorageKeyChange(storageKey)
  \/ \E newMode \in ThemeModes : SetTheme(newMode)
  \/ Toggle
  \/ \E i \in 1..MaxPending : WriteResolve(i)
  \/ \E i \in 1..MaxPending : WriteReject(i)
  \/ \E colorScheme \in {"light", "dark", "null"} : SystemChange(colorScheme)

ProviderSpec == ProviderInit /\ [][ProviderNext]_vars

\* the provider with the promise of every getItem settling
HydrationSpec ==
  ProviderSpec /\ WF_vars(\E i \in 1..MaxPending : ReadResolve(i) \/ ReadReject(i))

\* components that call useTheme, while the persisted mode is read
HookNext ==
  \/ UseTheme
  \/ \E i \in 1..MaxPending : ReadResolve(i)
  \/ \E i \in 1..MaxPending : ReadReject(i)
  \/ Toggle

HookSpec == ProviderInit /\ [][HookNext]_vars

-----------------------------------------------------------------------------
(* The token merger on its own: createNVA over the theme options *)

TokenInit ==
  /\ EngineInit
  /\ nva \in {[input |-> theme, created |-> FALSE] : theme \in ThemeInputs}
  /\ expansion = NoExpansion
  /\ provider = Unmounted

\* const { theme, colorScheme } = createNVA({ theme: input })
CreateNVA ==
  /\ ~nva.created
  /\ nva' = createNVA(nva.input)
  /\ UNCHANGED <<engine, expansion, provider>>

TokenSpec == TokenInit /\ [][CreateNVA]_vars

-----------------------------------------------------------------------------
(* The utils expander on its own: expandUtils over style objects and utils *)

ExpandInit ==
  /\ EngineInit
  /\ nva = createNVA(inputTheme)
  /\ expansion \in {[style |-> style, utils |-> utils, applied |-> FALSE] :
                      style \in StyleInputs, utils \in UtilsInputs}
  /\ provider = Unmounted

\* result = expandUtils(style, utils)
ExpandUtils ==
  /\ ~expansion.applied
  /\ expansion' = [style |-> expansion.style, utils |-> expansion.utils, applied |-> TRUE,
                    result |-> expandUtils(expansion.style, expansion.utils)]
  /\ UNCHANGED <<engine, nva, provider>>

ExpandSpec == ExpandInit /\ [][ExpandUtils]_vars

-----------------------------------------------------------------------------
(* Vocabulary of the properties *)

Calls == 1..Len(log)
Objects == DOMAIN heap

\* the selections of a call without the theme field, and the override object it passed
Selections(args) == IF Len(args) = 0 THEN <<>> ELSE SelectSeq(args[1], LAMBDA e : e.k # "theme")
OverrideOf(args) == IF Len(args) = 0 \/ ~Has(args[1], "theme") THEN "" ELSE At(args[1], "theme").s
DefinedPairs(props) == {<<props[i].k, props[i].v>> : i \in {j \in 1..Len(props) : props[j].v # U}}

\* the expanded configuration a result was resolved against: the declaration's, or the
\* factory's re-evaluation against the theme whose colors are the override
UsedConfig(d, theme) ==
  IF theme = "" THEN decls[d]
  ELSE LET recomputed == Evaluate(decls[d].config, overriddenTheme(O(theme)))
       IN [slots |-> decls[d].slots,
           base |-> expandBaseUtils(Field(recomputed, "base"), inputUtils),
           variants |-> expandVariantsUtils(Field(recomputed, "variants"), inputUtils),
           defaultVariants |-> recomputed.defaultVariants,
           compoundVariants |->
             expandCompoundUtils(Field(recomputed, "compoundVariants"), inputUtils)]

\* the uncached resolution of a configuration for the selections of a call
Uncached(cfg, props) ==
  computeResult(cfg.slots, cfg.base, cfg.variants, cfg.compoundVariants,
                Spread(ObjMap(cfg.defaultVariants),
                       [k \in {e[1] : e \in DefinedPairs(props)} |-> Get(props, k)]))

\* the theme a call resolves against: its override on a factory declaration, none otherwise
ThemeUsed(i) == IF decls[log[i].d].isFactory THEN OverrideOf(log[i].args) ELSE ""

Max(set) == CHOOSE x \in set : \A y \in set : y <= x

-----------------------------------------------------------------------------
\* C1: for every declared slot and property key, a resolved style takes the key's value
\* from the last matching compound variant that sets it; if none sets it, from the last
\* selected variant axis that sets it; if none, from base[slot]; and it has no other key.
MatchingCompounds(cfg, props) ==
  {i \in 1..Len(cfg.compoundVariants) :
     \A j \in 1..Len(cfg.compoundVariants[i].conditions) :
       normalizeVariantValue(cfg.compoundVariants[i].conditions[j].v) =
         normalizeVariantValue(Prop(props, cfg.compoundVariants[i].conditions[j].k))}

SelectedAxes(cfg, props) ==
  {i \in 1..Len(cfg.variants) :
     /\ cfg.variants[i].k \in DOMAIN props
     /\ props[cfg.variants[i].k] # U
     /\ normalizeVariantValue(props[cfg.variants[i].k]) \in DOMAIN cfg.variants[i].v}

CompoundCss(cfg, i, slot) ==
  IF slot \in DOMAIN cfg.compoundVariants[i].css THEN cfg.compoundVariants[i].css[slot]
  ELSE Empty

AxisCss(cfg, i, slot, props) ==
  LET option == cfg.variants[i].v[normalizeVariantValue(props[cfg.variants[i].k])]
  IN IF slot \in DOMAIN option THEN option[slot] ELSE Empty

BaseCss(cfg, slot) == IF slot \in DOMAIN cfg.base THEN cfg.base[slot] ELSE Empty

\* the property keys a tier sets on a slot, and the last member of a tier that sets one
TierKeys(css, tier) == UNION {DOMAIN css[i] : i \in tier}
LastSetter(css, tier, key) == Max({i \in tier : key \in DOMAIN css[i]})

PrecedenceHolds(style, base, axisCss, axes, compoundCss, compounds) ==
  /\ DOMAIN style = DOMAIN base \cup TierKeys(axisCss, axes) \cup TierKeys(compoundCss, compounds)
  /\ \A key \in DOMAIN style :
       style[key] =
         IF key \in TierKeys(compoundCss, compounds)
         THEN compoundCss[LastSetter(compoundCss, compounds, key)][key]
         ELSE IF key \in TierKeys(axisCss, axes)
         THEN axisCss[LastSetter(axisCss, axes, key)][key]
         ELSE base[key]

C1_Precedence ==
  \A o \in Objects : \A cfg \in {UsedConfig(heap[o].owner, heap[o].theme)} :
    \A axes \in {SelectedAxes(cfg, heap[o].resolved)} :
      \A compounds \in {MatchingCompounds(cfg, heap[o].resolved)} :
        \A slot \in SlotSet(cfg.slots) :
          PrecedenceHolds(heap[o].content[slot], BaseCss(cfg, slot),
                          [i \in axes |-> AxisCss(cfg, i, slot, heap[o].resolved)], axes,
                          [i \in compounds |-> CompoundCss(cfg, i, slot)], compounds)

\* a resolved style with a key that all three tiers set, and a key that two axes set
C1_Witness ==
  \E o \in Objects : \E cfg \in {UsedConfig(heap[o].owner, heap[o].theme)} :
    \E slot \in SlotSet(cfg.slots) :
      LET props == heap[o].resolved
          axes == SelectedAxes(cfg, props)
          compounds == MatchingCompounds(cfg, props)
      IN /\ \E key \in DOMAIN BaseCss(cfg, slot) :
              /\ \E i \in axes : key \in DOMAIN AxisCss(cfg, i, slot, props)
              /\ \E i \in compounds : key \in DOMAIN CompoundCss(cfg, i, slot)
         /\ \E key \in DOMAIN heap[o].content[slot] :
              Cardinality({i \in axes : key \in DOMAIN AxisCss(cfg, i, slot, props)}) = 2

-----------------------------------------------------------------------------
\* C2: every result a call returns, from the cache or not, is structurally equal to the
\* uncached resolution of that call's own selections against the configuration the call
\* resolves against.
C2_CacheTransparency ==
  \A i \in Calls :
    heap[log[i].ret].content =
      Uncached(UsedConfig(log[i].d, ThemeUsed(i)), Selections(log[i].args))

-----------------------------------------------------------------------------
\* C3: two default-path calls on one declaration whose selections hold the same defined
\* axis/value pairs, in any key order and with any undefined-valued keys, return the same
\* object, and the later call resolves no slot.
SamePairs(i, j) ==
  /\ log[i].d = log[j].d
  /\ log[i].path = "default" /\ log[j].path = "default"
  /\ DefinedPairs(Selections(log[i].args)) = DefinedPairs(Selections(log[j].args))

C3_SameSelectionsSameObject ==
  \A i \in Calls : \A j \in Calls :
    i < j /\ SamePairs(i, j) => log[j].ret = log[i].ret /\ log[j].slotCalls = 0

\* two calls that list the same two defined pairs in different key orders, the later of
\* which returned the earlier's object without resolving a slot
C3_Witness ==
  \E i \in Calls : \E j \in Calls :
    /\ i < j /\ SamePairs(i, j)
    /\ Keys(Selections(log[i].args)) # Keys(Selections(log[j].args))
    /\ Cardinality(DefinedPairs(Selections(log[i].args))) = 2
    /\ Len(Selections(log[j].args)) = 2
    /\ log[j].ret = log[i].ret
    /\ log[j].slotCalls = 0

-----------------------------------------------------------------------------
\* C4: the selections a call resolves are defaultVariants overridden by every supplied
\* value that is not undefined (false included); calls that differ only by undefined-valued
\* keys get equal results.
Supplied(props) == {props[i].k : i \in {j \in 1..Len(props) : props[j].v # U}}
Defined(props) == SelectSeq(props, LAMBDA e : e.v # U)

C4_DefaultFill ==
  /\ \A i \in Calls :
       ~log[i].hit =>
         LET defaults == UsedConfig(log[i].d, ThemeUsed(i)).defaultVariants
             props == Selections(log[i].args)
             resolved == heap[log[i].ret].resolved
         IN /\ DOMAIN resolved = KeySet(defaults) \cup Supplied(props)
            /\ \A k \in DOMAIN resolved :
                 resolved[k] = IF k \in Supplied(props) THEN Get(props, k) ELSE Get(defaults, k)
  /\ \A i \in Calls : \A j \in Calls :
       /\ log[i].d = log[j].d
       /\ ThemeUsed(i) = ThemeUsed(j)
       /\ Defined(Selections(log[i].args)) = Defined(Selections(log[j].args))
       => heap[log[i].ret].content = heap[log[j].ret].content

\* a resolution where an axis passed as undefined took its default, one where false
\* replaced the default true, and a call with the axis omitted that got the same result
C4_Witness ==
  /\ \E i \in Calls : \E j \in Calls : \E k \in {"size", "square"} :
       /\ ~log[i].hit
       /\ log[i].d = log[j].d
       /\ Has(Selections(log[i].args), k) /\ Get(Selections(log[i].args), k) = U
       /\ Has(decls[log[i].d].defaultVariants, k)
       /\ heap[log[i].ret].resolved[k] = Get(decls[log[i].d].defaultVariants, k)
       /\ ~Has(Selections(log[j].args), k)
       /\ Defined(Selections(log[i].args)) = Defined(Selections(log[j].args))
       /\ log[i].ret = log[j].ret
  /\ \E i \in Calls :
       /\ ~log[i].hit
       /\ Get(Selections(log[i].args), "square") = B(FALSE)
       /\ Get(decls[log[i].d].defaultVariants, "square") = B(TRUE)
       /\ heap[log[i].ret].resolved["square"] = B(FALSE)

-----------------------------------------------------------------------------
\* C5: a boolean b and the string String(b) are interchangeable: calls that differ only
\* so get equal results, and every resolution is unchanged when the booleans of its
\* resolved selections are replaced by the strings and the strings by the booleans, in
\* the variant lookup and in the compound conditions.
Stringified(props) ==
  [i \in 1..Len(props) |->
     E(props[i].k, IF props[i].v.t = "boolean" THEN S(String(props[i].v)) ELSE props[i].v)]

Swapped(resolved) ==
  [k \in DOMAIN resolved |->
     IF resolved[k].t = "boolean" THEN S(String(resolved[k]))
     ELSE IF resolved[k] = S("true") THEN B(TRUE)
     ELSE IF resolved[k] = S("false") THEN B(FALSE)
     ELSE resolved[k]]

C5_BooleanStringEquivalence ==
  /\ \A i \in Calls : \A j \in Calls :
       /\ log[i].d = log[j].d
       /\ ThemeUsed(i) = ThemeUsed(j)
       /\ Stringified(Selections(log[i].args)) = Stringified(Selections(log[j].args))
       => heap[log[i].ret].content = heap[log[j].ret].content
  /\ \A o \in Objects : \A cfg \in {UsedConfig(heap[o].owner, heap[o].theme)} :
       computeResult(cfg.slots, cfg.base, cfg.variants, cfg.compoundVariants,
                     Swapped(heap[o].resolved)) = heap[o].content

\* a call with square: true and one with square: "true", both under a compound variant
\* whose condition is the boolean, and a resolution under the compound whose condition
\* is the string "false"
C5_Witness ==
  /\ \E i \in Calls : \E j \in Calls :
       /\ log[i].d = log[j].d
       /\ Get(Selections(log[i].args), "square") = B(TRUE)
       /\ Get(Selections(log[j].args), "square") = S("true")
       /\ Stringified(Selections(log[i].args)) = Stringified(Selections(log[j].args))
       /\ \E c \in MatchingCompounds(decls[log[i].d], heap[log[j].ret].resolved) :
            "width" \in DOMAIN CompoundCss(decls[log[i].d], c, "root")
  /\ \E o \in Objects :
       /\ "square" \in DOMAIN heap[o].resolved /\ heap[o].resolved["square"] = B(FALSE)
       /\ \E c \in MatchingCompounds(decls[heap[o].owner], heap[o].resolved) :
            "fontSize" \in DOMAIN CompoundCss(decls[heap[o].owner], c, "text")

-----------------------------------------------------------------------------
\* C6: a call returns an object its own declaration computed, and no object is returned
\* by calls on two declarations.
C6_PartitionPerDeclaration ==
  /\ \A i \in Calls : heap[log[i].ret].owner = log[i].d
  /\ \A i \in Calls : \A j \in Calls : log[i].d # log[j].d => log[i].ret # log[j].ret

\* two declarations of one kind built from the same configuration object, called with the
\* same selection key
C6_Witness ==
  \E i \in Calls : \E j \in Calls :
    /\ i < j
    /\ log[i].d # log[j].d
    /\ decls[log[i].d].config = decls[log[j].d].config
    /\ decls[log[i].d].kind = decls[log[j].d].kind
    /\ log[i].key = log[j].key
    /\ log[i].ret # log[j].ret

-----------------------------------------------------------------------------
\* C7: on a factory declaration a call with a color override returns the resolution, for
\* its selections, of the factory re-evaluated against the resolved theme with colors
\* replaced by the override, with that configuration's defaultVariants; a call with no
\* override returns the resolution of the declaration-time configuration.
C7_OverrideResolution ==
  \A i \in Calls :
    decls[log[i].d].isFactory =>
      LET o == OverrideOf(log[i].args)
          replaced == [key \in DOMAIN resolvedTheme |->
                         IF key = "colors" THEN OverrideColors(o) ELSE resolvedTheme[key]]
          config == IF o = "" THEN buttonFactory(resolvedTheme) ELSE buttonFactory(replaced)
          cfg == [slots |-> decls[log[i].d].slots,
                  base |-> expandBaseUtils(<<config.base>>, inputUtils),
                  variants |-> expandVariantsUtils(<<config.variants>>, inputUtils),
                  defaultVariants |-> config.defaultVariants,
                  compoundVariants |->
                    expandCompoundUtils(<<config.compoundVariants>>, inputUtils)]
      IN heap[log[i].ret].content = Uncached(cfg, Selections(log[i].args))

-----------------------------------------------------------------------------
\* C8: on a factory declaration, a call passing the same override object and the same
\* normalized selections as an earlier call returns the same object without evaluating
\* the factory; the first call passing an override object with a key is a miss even when
\* another object of equal contents was passed before: the factory is evaluated and the
\* object returned is a new one.
SameOverrideAndKey(i, j) ==
  /\ log[i].d = log[j].d
  /\ log[i].path = "override" /\ log[j].path = "override"
  /\ OverrideOf(log[i].args) = OverrideOf(log[j].args)
  /\ log[i].key = log[j].key

C8_OverrideIdentity ==
  \A j \in Calls :
    log[j].path = "override" =>
      IF \E i \in 1..(j - 1) : SameOverrideAndKey(i, j)
      THEN /\ \A i \in 1..(j - 1) : SameOverrideAndKey(i, j) => log[j].ret = log[i].ret
           /\ log[j].factoryCalls = 0
      ELSE /\ log[j].factoryCalls = 1
           /\ \A i \in 1..(j - 1) : log[j].ret # log[i].ret

\* the same override object and selections twice, and another object of equal contents
\* after it
C8_Witness ==
  \E i \in Calls : \E j \in Calls : \E k \in Calls :
    /\ i < j /\ SameOverrideAndKey(i, j) /\ log[j].ret = log[i].ret
    /\ i < k /\ log[k].d = log[i].d /\ log[k].path = "override" /\ log[k].key = log[i].key
    /\ OverrideOf(log[k].args) # OverrideOf(log[i].args)
    /\ OverrideColors(OverrideOf(log[k].args)) = OverrideColors(OverrideOf(log[i].args))
    /\ log[k].ret # log[i].ret /\ log[k].factoryCalls = 1

-----------------------------------------------------------------------------
\* C9: on a declaration of the instance made from a static configuration, a call with a
\* color override returns the same object as the call with the same variant selections
\* and no override, and the override is no resolved selection.
StaticNva(i) == decls[log[i].d].kind = "nva" /\ ~decls[log[i].d].isFactory

C9_OverrideIgnoredOnStatic ==
  /\ \A i \in Calls : \A j \in Calls :
       /\ StaticNva(i) /\ log[i].d = log[j].d
       /\ Selections(log[i].args) = Selections(log[j].args)
       => log[i].ret = log[j].ret
  /\ \A i \in Calls :
       StaticNva(i) => /\ log[i].path = "default"
                       /\ "theme" \notin DOMAIN heap[log[i].ret].resolved

C9_Witness ==
  \E i \in Calls : \E j \in Calls :
    /\ StaticNva(i) /\ log[i].d = log[j].d
    /\ OverrideOf(log[i].args) # "" /\ OverrideOf(log[j].args) = ""
    /\ Selections(log[i].args) = Selections(log[j].args)
    /\ log[i].ret = log[j].ret

-----------------------------------------------------------------------------
\* C10: clearStyleCache empties the primitive cache only: every object a call returned is
\* still cached under its key in its declaration's (or override's) partition, and a call
\* repeated after a clear returns the same object as before the clear.
Partition(i) ==
  LET c == decls[log[i].d]
  IN IF log[i].path = "override"
     THEN IF OverrideOf(log[i].args) \in DOMAIN themeOverrideCache[c.ref]
          THEN themeOverrideCache[c.ref][OverrideOf(log[i].args)] ELSE Empty
     ELSE IF c.kind = "styled"
          THEN (IF c.ref \in DOMAIN styleCache THEN styleCache[c.ref] ELSE Empty)
          ELSE (IF c.ref \in DOMAIN instanceCache THEN instanceCache[c.ref] ELSE Empty)

C10_ClearKeepsIdentityCaches ==
  /\ primitiveCache = Empty
  /\ \A i \in Calls : log[i].key \in DOMAIN Partition(i) /\ Partition(i)[log[i].key] = log[i].ret
  /\ \A i \in Calls : \A j \in Calls :
       /\ i < j /\ log[i].epoch < log[j].epoch
       /\ log[i].d = log[j].d /\ log[i].path = log[j].path
       /\ OverrideOf(log[i].args) = OverrideOf(log[j].args)
       /\ Selections(log[i].args) = Selections(log[j].args)
       => log[j].ret = log[i].ret /\ log[j].hit

\* a call, a clear, and the same call again
C10_Witness ==
  \E i \in Calls : \E j \in Calls :
    /\ i < j /\ log[i].epoch < log[j].epoch
    /\ log[i].d = log[j].d /\ log[i].args = log[j].args
    /\ log[j].ret = log[i].ret

-----------------------------------------------------------------------------
\* C11: the cache partitions are append-only: a step keeps every entry (partition, key,
\* object) there is, and adds at most one, which is the entry of the key of a call that
\* missed, holding the object that call returned.
CacheEntries ==
  UNION {{<<"styleCache", ref, "", key, styleCache[ref][key]>> :
            key \in DOMAIN styleCache[ref]} : ref \in DOMAIN styleCache}
  \cup UNION {{<<"instanceCache", ref, "", key, instanceCache[ref][key]>> :
                 key \in DOMAIN instanceCache[ref]} : ref \in DOMAIN instanceCache}
  \cup UNION {UNION {{<<"themeOverrideCache", ref, o, key, themeOverrideCache[ref][o][key]>> :
                        key \in DOMAIN themeOverrideCache[ref][o]} :
                      o \in DOMAIN themeOverrideCache[ref]} :
               ref \in DOMAIN themeOverrideCache}

C11_AppendOnly ==
  [][/\ CacheEntries \subseteq CacheEntries'
     /\ Cardinality(CacheEntries' \ CacheEntries) <= 1
     /\ \A e \in CacheEntries' \ CacheEntries :
          /\ Len(log') = Len(log) + 1
          /\ ~log'[Len(log')].hit
          /\ e[4] = log'[Len(log')].key
          /\ e[5] = log'[Len(log')].ret
          /\ \A f \in CacheEntries : <<f[1], f[2], f[3], f[4]>> # <<e[1], e[2], e[3], e[4]>>]_vars

\* a partition that got a second entry after its first, and a later hit on the first
C11_Witness ==
  \E i \in Calls : \E j \in Calls : \E k \in Calls :
    /\ i < j /\ j < k
    /\ log[i].d = log[j].d /\ log[j].d = log[k].d
    /\ log[i].path = log[j].path /\ log[j].path = log[k].path
    /\ OverrideOf(log[i].args) = OverrideOf(log[j].args)
    /\ OverrideOf(log[j].args) = OverrideOf(log[k].args)
    /\ ~log[i].hit /\ ~log[j].hit /\ log[k].hit
    /\ log[i].key # log[j].key /\ log[k].key = log[i].key
    /\ log[k].ret = log[i].ret

-----------------------------------------------------------------------------
(* The token merger *)

\* the colors option is structured: a light map, a dark map if any
StructuredInput(theme) ==
  /\ "colors" \in DOMAIN theme
  /\ Has(theme.colors, "light") /\ At(theme.colors, "light").t = "object"
  /\ Has(theme.colors, "dark") => At(theme.colors, "dark").t \in {"object", "undefined"}

\* the colors option is flat: every entry is a color string
FlatInput(theme) ==
  /\ "colors" \in DOMAIN theme
  /\ \A i \in 1..Len(theme.colors) : theme.colors[i].v.t = "string"

\* the top-level string entries other than light and dark
Standalone(colors) ==
  [k \in {colors[i].k : i \in {j \in 1..Len(colors) :
             colors[j].k \notin {"light", "dark"} /\ colors[j].v.t = "string"}} |->
     At(colors, k)]

C13_FlatColors ==
  (nva.created /\ FlatInput(nva.input)) =>
    /\ nva.colorScheme.light = ObjMap(nva.input.colors)
    /\ nva.colorScheme.dark = <<ObjMap(nva.input.colors)>>
    /\ nva.theme.colors = Spread(defaultTokens.palette, ObjMap(nva.input.colors))

\* C14: each of the eleven non-color categories of the resolved theme is the default
\* table overlaid with the user's table: the user's value on every key the user sets, the
\* default on every other default key, and the defaults alone when the user omits it.
C14_CategoryMerge ==
  nva.created =>
    \A category \in KnownThemeKeys \ {"colors"} :
      LET given == category \in DOMAIN nva.input
          resolved == nva.theme[category]
      IN /\ DOMAIN resolved =
              DOMAIN defaultTokens[category]
              \cup (IF given THEN DOMAIN nva.input[category] ELSE {})
         /\ \A k \in DOMAIN resolved :
              resolved[k] = IF given /\ k \in DOMAIN nva.input[category]
                            THEN nva.input[category][k] ELSE defaultTokens[category][k]
         /\ ~given => resolved = defaultTokens[category]

\* the user overrides a default spacing, adds one, keeps one, and omits fontSizes
C14_Witness ==
  /\ nva.created
  /\ "spacing" \in DOMAIN nva.input /\ "fontSizes" \notin DOMAIN nva.input
  /\ \E k \in DOMAIN nva.input.spacing \cap DOMAIN defaultTokens.spacing :
       nva.theme.spacing[k] # defaultTokens.spacing[k]
  /\ \E k \in DOMAIN nva.input.spacing : k \notin DOMAIN defaultTokens.spacing
  /\ \E k \in DOMAIN defaultTokens.spacing :
       k \notin DOMAIN nva.input.spacing /\ k \in DOMAIN nva.theme.spacing
  /\ nva.theme.fontSizes = defaultTokens.fontSizes

\* C15: every key of the theme option outside the known categories is a key of the
\* resolved theme with the user's value, and the known categories are those of the same
\* option without the custom keys.
C15_CustomKeys ==
  nva.created =>
    /\ DOMAIN nva.theme = KnownThemeKeys \cup DOMAIN nva.input
    /\ \A key \in DOMAIN nva.input \ KnownThemeKeys : nva.theme[key] = nva.input[key]
    /\ \A known \in {[key \in DOMAIN nva.input \cap KnownThemeKeys |-> nva.input[key]]} :
         \A category \in KnownThemeKeys :
           nva.theme[category] = createResolvedTheme(known)[category]

\* two custom groups, one named like a default table, next to known categories
C15_Witness ==
  /\ nva.created
  /\ {"breakpoints", "palette"} \subseteq DOMAIN nva.theme
  /\ nva.theme.palette # defaultTokens.palette
  /\ {"spacing", "colors"} \subseteq DOMAIN nva.input

-----------------------------------------------------------------------------
\* the configuration as written, which a result of the instance was resolved against
WrittenConfig(o) ==
  Evaluate(decls[heap[o].owner].config,
           IF heap[o].theme = "" THEN resolvedTheme ELSE overriddenTheme(O(heap[o].theme)))

\* the expansion of the style a slot table as written gives a slot
ExpandedCss(slots, slot) ==
  IF Has(slots, slot) THEN expandUtils(At(slots, slot), inputUtils) ELSE Empty

\* C17: a result of the instance is the precedence merge of the separately expanded
\* tiers of the configuration as written (base[slot], the selected label of each axis,
\* the css of each matching compound variant), so that a macro of a compound variant
\* overrides what a macro of a variant wrote, and no macro name is a key of a result.
C17_ExpandBeforeResolve ==
  \A o \in Objects :
    decls[heap[o].owner].kind = "nva" =>
      \A cfg \in {WrittenConfig(o)} : \A props \in {heap[o].resolved} :
        \A axes \in {{i \in 1..Len(cfg.variants) :
                         /\ cfg.variants[i].k \in DOMAIN props
                         /\ props[cfg.variants[i].k] # U
                         /\ Has(cfg.variants[i].v,
                                normalizeVariantValue(props[cfg.variants[i].k]))}} :
          \A compounds \in {MatchingCompounds(cfg, props)} :
            \A slot \in SlotSet(decls[heap[o].owner].slots) :
              /\ PrecedenceHolds(
                   heap[o].content[slot], ExpandedCss(cfg.base, slot),
                   [i \in axes |->
                      ExpandedCss(At(cfg.variants[i].v,
                                     normalizeVariantValue(props[cfg.variants[i].k])), slot)],
                   axes,
                   [i \in compounds |-> ExpandedCss(cfg.compoundVariants[i].css, slot)],
                   compounds)
              /\ DOMAIN heap[o].content[slot] \cap inputUtils = {}

\* the size macro of the compound variant (64) overrides the width the size macro of the
\* square axis wrote (48), and the px macro of the axes overrides the base's
C17_Witness ==
  \E o \in Objects :
    /\ decls[heap[o].owner].kind = "nva" /\ decls[heap[o].owner].isFactory
    /\ Prop(heap[o].resolved, "size") = S("lg") /\ Prop(heap[o].resolved, "square") = B(TRUE)
    /\ heap[o].content["root"]["width"] = N(64)
    /\ heap[o].content["root"]["paddingLeft"] = N(0)
    /\ "size" \notin DOMAIN heap[o].content["root"]

-----------------------------------------------------------------------------
\* a field of the configuration as written, the given empty value when it is absent
OrEmpty(cfg, field, empty) == IF field \in DOMAIN cfg THEN cfg[field] ELSE empty

\* the axes whose selected label the axis declares
DeclaredSelections(variants, props) ==
  {i \in 1..Len(variants) :
     /\ variants[i].k \in DOMAIN props
     /\ props[variants[i].k] # U
     /\ Has(variants[i].v, normalizeVariantValue(props[variants[i].k]))}

\* C19: computeStyles raises no error and degrades silently: every result is the
\* precedence merge over the configuration with each absent field (base, variants,
\* defaultVariants, compoundVariants) read as empty; a selection of an axis the
\* configuration does not declare, or of a label its axis does not declare, contributes
\* no style and leaves the rest of the resolution as it is.
C19_SilentDegradation ==
  /\ \A i \in Calls : log[i].ret \in Objects
  /\ \A o \in Objects :
       \A cfg \in {WrittenConfig(o)} : \A props \in {heap[o].resolved} :
         \A variants \in {OrEmpty(cfg, "variants", <<>>)} :
           \A compoundVariants \in {OrEmpty(cfg, "compoundVariants", <<>>)} :
             \A axes \in {DeclaredSelections(variants, props)} :
               \A compounds \in {{i \in 1..Len(compoundVariants) :
                                     \A j \in 1..Len(compoundVariants[i].conditions) :
                                       normalizeVariantValue(compoundVariants[i].conditions[j].v)
                                       = normalizeVariantValue(
                                           Prop(props, compoundVariants[i].conditions[j].k))}} :
                 /\ DOMAIN heap[o].content = SlotSet(cfg.slots)
                 /\ \A k \in DOMAIN props :
                      props[k] = IF \E e \in DefinedPairs(Selections(log[
                                        CHOOSE c \in Calls : log[c].ret = o /\ ~log[c].hit].args)) :
                                        e[1] = k
                                 THEN Get(Selections(log[
                                        CHOOSE c \in Calls : log[c].ret = o /\ ~log[c].hit].args), k)
                                 ELSE At(OrEmpty(cfg, "defaultVariants", <<>>), k)
                 /\ \A slot \in SlotSet(cfg.slots) :
                      PrecedenceHolds(
                        heap[o].content[slot],
                        ExpandedCss(OrEmpty(cfg, "base", <<>>), slot),
                        [i \in axes |->
                           ExpandedCss(At(variants[i].v,
                                          normalizeVariantValue(props[variants[i].k])), slot)],
                        axes,
                        [i \in compounds |-> ExpandedCss(compoundVariants[i].css, slot)],
                        compounds)

-----------------------------------------------------------------------------
(* The utils expander *)

\* what the i-th property of the style writes: the macro's output, or the property itself
Written(i) ==
  IF expansion.style[i].k \in expansion.utils
  THEN utilFn(expansion.style[i].k, expansion.style[i].v)
  ELSE expansion.style[i].k :> expansion.style[i].v

C18_NotRecursive ==
  expansion.applied =>
    \A i \in 1..Len(expansion.style) :
      expansion.style[i].k \in expansion.utils =>
        \A k \in DOMAIN Written(i) \cap expansion.utils :
          /\ k \in DOMAIN expansion.result
          /\ (\A j \in (i + 1)..Len(expansion.style) : k \notin DOMAIN Written(j))
               => expansion.result[k] = Written(i)[k]
          /\ \A inner \in DOMAIN utilFn(k, Written(i)[k]) :
               inner \in DOMAIN expansion.result
                 => \E j \in 1..Len(expansion.style) : inner \in DOMAIN Written(j)

\* the macro p is expanded to px and py, which are macros of the instance and stay
C18_Witness ==
  /\ expansion.applied
  /\ {"p", "px", "py"} \subseteq expansion.utils
  /\ \E i \in 1..Len(expansion.style) : expansion.style[i].k = "p"
  /\ {"px", "py"} \subseteq DOMAIN expansion.result
  /\ "paddingLeft" \notin DOMAIN expansion.result
  /\ "p" \notin DOMAIN expansion.result

-----------------------------------------------------------------------------
(* The provider *)

\* C20: the colors of the context value are colorScheme.dark when the resolved scheme is
\* dark and the colorScheme has a dark map, and colorScheme.light in every other case;
\* the resolved scheme is the mode for light and dark, and for system it is dark exactly
\* when the system preference is dark.
C20_ActiveColors ==
  (provider.mounted /\ provider.isHydrated) =>
    LET dark == \/ provider.mode = "dark"
                \/ provider.mode = "system" /\ provider.systemScheme = "dark"
    IN /\ ContextValue.isDark = dark
       /\ ContextValue.colors =
            IF dark /\ provider.colors.dark # <<>> THEN provider.colors.dark[1]
            ELSE provider.colors.light

\* C21: useTheme called where no provider scope exists fails with an error that names the
\* missing ThemeProvider and yields no value at all; called under a provider it returns
\* the provider's context value.
C21_UseThemeScope ==
  [][provider'.used # provider.used =>
       LET r == provider'.used[1]
       IN IF provider.mounted
          THEN ~r.threw /\ r.value = ContextValue
          ELSE r.threw /\ r.message # "" /\ "value" \notin DOMAIN r]_vars

C21_Witness ==
  /\ ~provider.mounted
  /\ provider.used # <<>>
  /\ provider.used[1].threw

-----------------------------------------------------------------------------
(* The resolver *)

\* C22: a compound variant contributes css[slot] to a slot exactly when each of its
\* conditions equals the resolved selection of its axis after normalization, so a compound
\* with no conditions always contributes; of the matching compounds that set a property
\* the last declared gives its value, and a property no matching compound sets is as the
\* base and the variants leave it.
C22_CompoundMatching ==
  [](\A o \in Objects : \A cfg \in {UsedConfig(heap[o].owner, heap[o].theme)} :
       \A matching \in {MatchingCompounds(cfg, heap[o].resolved)} :
         \A slot \in SlotSet(cfg.slots) :
           LET style == heap[o].content[slot]
               below == Spread(BaseCss(cfg, slot),
                               applyVariant(slot, cfg.variants, heap[o].resolved))
               setters(key) == {i \in matching : key \in DOMAIN CompoundCss(cfg, i, slot)}
               compoundKeys ==
                 UNION {DOMAIN CompoundCss(cfg, i, slot) : i \in 1..Len(cfg.compoundVariants)}
           IN /\ \A i \in 1..Len(cfg.compoundVariants) :
                   Len(cfg.compoundVariants[i].conditions) = 0 => i \in matching
              /\ \A key \in compoundKeys \cup DOMAIN style \cup DOMAIN below :
                   IF setters(key) # {}
                   THEN /\ key \in DOMAIN style
                        /\ style[key] = CompoundCss(cfg, Max(setters(key)), slot)[key]
                   ELSE /\ key \in DOMAIN style <=> key \in DOMAIN below
                        /\ key \in DOMAIN style => style[key] = below[key])

\* a result with two matching compounds that set one property of a slot, one of them with
\* no conditions, and a declared compound that does not match
C22_Witness ==
  \E o \in Objects : \E cfg \in {UsedConfig(heap[o].owner, heap[o].theme)} :
    \E matching \in {MatchingCompounds(cfg, heap[o].resolved)} :
      \E slot \in SlotSet(cfg.slots) : \E i \in matching : \E j \in matching :
        /\ i < j
        /\ Len(cfg.compoundVariants[i].conditions) = 0
        /\ \E key \in DOMAIN CompoundCss(cfg, i, slot) :
             /\ key \in DOMAIN CompoundCss(cfg, j, slot)
             /\ CompoundCss(cfg, i, slot)[key] # CompoundCss(cfg, j, slot)[key]
             /\ heap[o].content[slot][key] = CompoundCss(cfg, j, slot)[key]
        /\ \E k \in 1..Len(cfg.compoundVariants) : k \notin matching

\* C23: when two selected axes set one property of a slot, and no matching compound sets
\* it, the property has the value of the axis that comes later in the key order of the
\* variant table; the order of the caller's selections and the order of defaultVariants
\* make no difference.
C23_AxisOrder ==
  [](/\ \A o \in Objects : \A cfg \in {UsedConfig(heap[o].owner, heap[o].theme)} :
          \A axes \in {SelectedAxes(cfg, heap[o].resolved)} :
            \A slot \in SlotSet(cfg.slots) : \A key \in DOMAIN heap[o].content[slot] :
              LET setters == {i \in axes : key \in DOMAIN AxisCss(cfg, i, slot, heap[o].resolved)}
                  compounds == {i \in MatchingCompounds(cfg, heap[o].resolved) :
                                  key \in DOMAIN CompoundCss(cfg, i, slot)}
              IN setters # {} /\ compounds = {} =>
                   heap[o].content[slot][key] =
                     AxisCss(cfg, Max(setters), slot, heap[o].resolved)[key]
     /\ \A i \in Calls : \A j \in Calls :
          /\ log[i].d = log[j].d
          /\ ThemeUsed(i) = ThemeUsed(j)
          /\ DefinedPairs(Selections(log[i].args)) = DefinedPairs(Selections(log[j].args))
          => heap[log[i].ret].content = heap[log[j].ret].content)

\* two calls that select the same two axes in opposite orders, on a table whose key order
\* is the reverse of the order of defaultVariants; both axes set a property, and it has
\* the value of the second axis of the table
C23_Witness ==
  \E i \in Calls : \E j \in Calls : \E cfg \in {UsedConfig(log[i].d, ThemeUsed(i))} :
    /\ log[i].d = log[j].d
    /\ Len(log[i].args) = 1 /\ Len(log[j].args) = 1
    /\ Len(log[i].args[1]) = 2
    /\ log[j].args[1] = <<log[i].args[1][2], log[i].args[1][1]>>
    /\ Len(cfg.variants) = 2 /\ Len(cfg.defaultVariants) = 2
    /\ cfg.defaultVariants[1].k = cfg.variants[2].k
    /\ \E slot \in SlotSet(cfg.slots) : \E key \in DOMAIN heap[log[j].ret].content[slot] :
         LET props == heap[log[j].ret].resolved
         IN /\ SelectedAxes(cfg, props) = {1, 2}
            /\ key \in DOMAIN AxisCss(cfg, 1, slot, props)
            /\ key \in DOMAIN AxisCss(cfg, 2, slot, props)
            /\ AxisCss(cfg, 1, slot, props)[key] # AxisCss(cfg, 2, slot, props)[key]
            /\ heap[log[j].ret].content[slot][key] = AxisCss(cfg, 2, slot, props)[key]

-----------------------------------------------------------------------------
(* The provider: hydration and the mode *)

\* C24: a provider that has AsyncStorage starts unhydrated and renders no children until
\* a read of the persisted mode has settled; whatever the read gives (a valid mode, an
\* unrecognised string, no value, a rejection) the provider is eventually hydrated.
C24_Hydration ==
  /\ provider.mounted /\ provider.hasStorage => ~ChildrenRendered
  /\ [][provider.mounted /\ ~ChildrenRendered /\ ChildrenRendered' =>
          Len(provider'.reads) < Len(provider.reads)]_vars
  /\ (provider.mounted /\ provider.hasStorage) ~> ChildrenRendered

\* hydrated by a read that found an unrecognised string
C24_Witness ==
  /\ provider.mounted /\ provider.hasStorage
  /\ provider.isHydrated
  /\ provider.reads = <<>> /\ provider.writes = <<>>
  /\ provider.stored[provider.storageKey] = "auto"

\* C25: toggle sets the mode to the opposite of the scheme in force, which for the mode
\* system is the system preference; afterwards the mode is light or dark and never system,
\* isDark has flipped, and the new mode goes to persistence as setTheme sends it.
C25_Toggle ==
  [][Toggle =>
       LET dark == \/ provider.mode = "dark"
                   \/ provider.mode = "system" /\ provider.systemScheme = "dark"
           newMode == IF dark THEN "light" ELSE "dark"
       IN /\ provider'.mode = newMode
          /\ provider'.mode \in {"light", "dark"}
          /\ ContextValue'.isDark = ~ContextValue.isDark
          /\ ContextValue.isDark = dark
          /\ SetTheme(newMode)
          /\ provider.hasStorage =>
               provider'.writes =
                 Append(provider.writes, [key |-> provider.storageKey, value |-> newMode])]_vars

\* after a toggle of a provider with storage: the new mode is in force and on its way to
\* the store
C25_Witness ==
  /\ ChildrenRendered
  /\ provider.hasStorage
  /\ provider.chosen = <<provider.mode>>
  /\ provider.mode = "light" /\ provider.systemScheme = "dark"
  /\ provider.writes = <<[key |-> provider.storageKey, value |-> provider.mode]>>

-----------------------------------------------------------------------------
(* The resolver: axes without a selection *)

\* C26: a compound variant with a condition on an axis that has no resolved selection is
\* never applied, whatever label the condition names: every result is the resolution with
\* those compounds left out.
Unselected(props, axis) == axis \notin DOMAIN props \/ props[axis] = U

C26_UnselectedAxis ==
  \A o \in Objects : \A cfg \in {UsedConfig(heap[o].owner, heap[o].theme)} :
    LET props == heap[o].resolved
        selected(cv) == \A j \in 1..Len(cv.conditions) : ~Unselected(props, cv.conditions[j].k)
    IN heap[o].content =
         computeResult(cfg.slots, cfg.base, cfg.variants,
                       SelectSeq(cfg.compoundVariants, selected), props)

-----------------------------------------------------------------------------
(* The results *)

\* C27: the keys of every result are exactly the slots its declaration declared, also
\* when the configuration has entries for other slots and when the factory, evaluated
\* again for a theme override, names other slots; this holds for results of the default
\* path, of the override path and of the standalone styled.
C27_DeclaredSlots ==
  [](/\ \A o \in Objects : DOMAIN heap[o].content = SlotSet(decls[heap[o].owner].slots)
     /\ \A i \in Calls :
          DOMAIN heap[log[i].ret].content =
            SlotSet(Evaluate(decls[log[i].d].config, resolvedTheme).slots))

\* an override-path result of a factory whose re-evaluation names the slot badge, and a
\* standalone result of a configuration whose base has an entry for the undeclared icon
C27_Witness ==
  /\ \E i \in Calls :
       /\ log[i].path = "override" /\ ~log[i].hit
       /\ \E cfg \in {Evaluate(decls[log[i].d].config,
                               overriddenTheme(O(OverrideOf(log[i].args))))} :
            /\ "badge" \in SlotSet(cfg.slots)
            /\ Has(cfg.base, "badge")
       /\ "badge" \notin DOMAIN heap[log[i].ret].content
  /\ \E i \in Calls :
       /\ decls[log[i].d].kind = "styled"
       /\ Has(Evaluate(decls[log[i].d].config, Empty).base, "icon")
       /\ "icon" \notin DOMAIN heap[log[i].ret].content

-----------------------------------------------------------------------------
(* Evaluation of the factory and of the macros *)

\* C28: styled of an instance invokes a configuration factory exactly once and the macros
\* once for each use in the configuration; after that a call invokes the factory, once,
\* and the macros only when it takes the override path and misses the override cache;
\* calls of the default path and hits of the override cache invoke neither.
C28_EvaluationPoints ==
  [](/\ \A d \in 1..Len(decls) :
          decls[d].kind = "nva" =>
            /\ decls[d].factoryCalls = IF decls[d].isFactory THEN 1 ELSE 0
            /\ decls[d].macroCalls = macroCalls(Evaluate(decls[d].config, resolvedTheme))
     /\ \A i \in Calls :
          IF log[i].path = "override" /\ ~log[i].hit
          THEN /\ decls[log[i].d].isFactory
               /\ log[i].factoryCalls = 1
               /\ log[i].macroCalls =
                    macroCalls(Evaluate(decls[log[i].d].config,
                                        overriddenTheme(O(OverrideOf(log[i].args)))))
          ELSE log[i].factoryCalls = 0 /\ log[i].macroCalls = 0)

\* a factory declaration that uses macros, called on the override path with a miss and
\* then a hit, and on the default path with a miss
C28_Witness ==
  \E d \in 1..Len(decls) : \E i \in Calls : \E j \in Calls : \E k \in Calls :
    /\ decls[d].kind = "nva" /\ decls[d].isFactory /\ decls[d].macroCalls > 0
    /\ log[i].d = d /\ log[j].d = d /\ log[k].d = d
    /\ log[i].path = "override" /\ ~log[i].hit /\ log[i].macroCalls > 0
    /\ log[j].path = "override" /\ log[j].hit
    /\ log[k].path = "default" /\ ~log[k].hit

\* C29: once setTheme or toggle has chosen a mode, no read of the persisted mode that
\* completes later replaces it, the read issued again for a new storageKey included: the
\* mode is the last mode chosen.
C29_ChoiceKept ==
  provider.mounted /\ provider.chosen # <<>> => provider.mode = provider.chosen[1]

\* C30: the mode is always light, dark or system; a read of the persisted mode changes the
\* mode only to a stored value that is one of the three, so any other stored value leaves
\* the mode as it was; a write to storage that fails, like one that succeeds, leaves the
\* mode as setTheme set it.
C30_ModeValid ==
  /\ [](provider.mounted => provider.mode \in ThemeModes)
  /\ [][provider.mounted /\ Len(provider'.reads) < Len(provider.reads) =>
          \/ provider'.mode = provider.mode
          \/ /\ provider'.mode \in ThemeModes
             /\ \E i \in 1..Len(provider.reads) :
                  provider.stored[provider.reads[i]] = provider'.mode]_vars
  /\ [][provider.mounted /\ Len(provider'.writes) < Len(provider.writes) =>
          provider'.mode = provider.mode]_vars

\* the store holds an unrecognised string under the key of a hydrated provider whose
\* write of the chosen mode has failed: the mode is the chosen one
C30_Witness ==
  /\ ChildrenRendered
  /\ provider.hasStorage
  /\ provider.storageKey = "native-variants-theme"
  /\ provider.stored = [key \in StorageKeys |-> "auto"]
  /\ provider.reads = <<>> /\ provider.writes = <<>>
  /\ provider.chosen = <<"system">> /\ provider.mode = "system"

====
